---------------------------- MODULE Spec2Model ----------------------------
(***************************************************************************)
(* Enrollment, lecture progress, navigation and review logic of the       *)
(* django-courses project (apps/courses), as a state machine over the     *)
(* database tables the views read and write.                               *)
(***************************************************************************)
EXTENDS Integers, Sequences, FiniteSets, Bags, TLC

(***************************************************************************)
(* Bounds of the model.                                                    *)
(***************************************************************************)
\* lecture ids the Lecture table's sequence may hand out
MaxLectures == 3
\* readings of the clock (timezone.now())
MaxTime == 2
\* largest lecture count a percentage is computed for in SpecPercent
MaxTotal == 50
\* requests served at the same time by the worker threads
MaxThreads == 2

\* Python's None where an object or an id is expected (ids start at 1)
None == 0
\* request.user of a request without a session: is_authenticated is False
AnonymousUser == 0

(***************************************************************************)
(* Python float arithmetic (IEEE 754 binary64, round to nearest, ties to   *)
(* even), as used by   int((completed_count / total_lectures) * 100).      *)
(* A positive float is [limbs, exp]: limbs are the digits of an integer in *)
(* base LimbBase, most significant first, and the value is that integer    *)
(* times 2^exp.  The integer has at most MantissaBits significant bits.    *)
(***************************************************************************)
MantissaBits == 53
LimbBits == 14
LimbBase == 16384

RECURSIVE Pow2(_)
Pow2(n) == IF n = 0 THEN 1 ELSE 2 * Pow2(n - 1)

\* the number of bits of n: 0 for 0, 1 for 1, 2 for 2 and 3, ...
RECURSIVE BitLen(_)
BitLen(n) == IF n = 0 THEN 0 ELSE 1 + BitLen(n \div 2)

\* the integer the limbs stand for (only for values below 2^31)
RECURSIVE LimbsInt(_)
LimbsInt(limbs) ==
    IF limbs = << >> THEN 0
    ELSE LimbBase * LimbsInt(SubSeq(limbs, 1, Len(limbs) - 1)) + limbs[Len(limbs)]

\* limbs * k + carry, for small k
RECURSIVE MulLimbs(_, _, _)
MulLimbs(limbs, k, carry) ==
    IF limbs = << >> THEN (IF carry = 0 THEN << >> ELSE <<carry>>)
    ELSE MulLimbs(SubSeq(limbs, 1, Len(limbs) - 1), k,
                  (limbs[Len(limbs)] * k + carry) \div LimbBase)
         \o <<(limbs[Len(limbs)] * k + carry) % LimbBase>>

\* n digits of r / den in base LimbBase by long division (r < den), then the
\* remainder left over
RECURSIVE DivLimbs(_, _, _)
DivLimbs(r, den, n) ==
    IF n = 0 THEN <<r>>
    ELSE <<(r * LimbBase) \div den>> \o DivLimbs((r * LimbBase) % den, den, n - 1)

\* the number of significant bits of the integer the limbs stand for
BitLength(limbs) == LimbBits * (Len(limbs) - 1) + BitLen(limbs[1])

\* the limbs rounded to a multiple of 2^d, 0 <= d <= LimbBits, ties to even;
\* sticky tells that the exact value lies above the limbs
RoundLimbs(limbs, d, sticky) ==
    IF d = 0 THEN limbs
    ELSE LET n     == Len(limbs)
             low   == limbs[n]
             low2  == IF n > 1 THEN limbs[n - 1] * LimbBase + low ELSE low
             guard == (low \div Pow2(d - 1)) % 2
             below == sticky \/ low % Pow2(d - 1) # 0
             odd   == (low2 \div Pow2(d)) % 2 = 1
             up    == guard = 1 /\ (below \/ odd)
             kept  == (low \div Pow2(d)) * Pow2(d) + (IF up THEN Pow2(d) ELSE 0)
         IN  MulLimbs(SubSeq(limbs, 1, n - 1), 1, kept \div LimbBase)
             \o <<kept % LimbBase>>

\* round a value to MantissaBits significant bits
RoundNearestEven(limbs, exp, sticky) ==
    [limbs |-> IF BitLength(limbs) > MantissaBits
               THEN RoundLimbs(limbs, BitLength(limbs) - MantissaBits, sticky)
               ELSE limbs,
     exp |-> exp]

\* the least k >= 0 with c * 2^k >= t
RECURSIVE ShiftUp(_, _)
ShiftUp(c, t) == IF c >= t THEN 0 ELSE 1 + ShiftUp(2 * c, t)

\* the greatest k >= 0 with t * 2^k <= c, for c >= t
RECURSIVE ShiftDown(_, _)
ShiftDown(c, t) == IF 2 * t > c THEN 0 ELSE 1 + ShiftDown(c, 2 * t)

\* c / t for integers c > 0, t > 0: the correctly rounded quotient.
\* num / den is in [1, 2); four limbs hold its first 4 * LimbBits = 56 bits.
FloatDiv(c, t) ==
    LET up   == ShiftUp(c, t)
        down == IF c >= t THEN ShiftDown(c, t) ELSE 0
        num  == c * Pow2(up)
        den  == t * Pow2(down)
        top  == (num * Pow2(LimbBits - 1)) \div den
        q    == DivLimbs((num * Pow2(LimbBits - 1)) % den, den, 3)
    IN  RoundNearestEven(<<top, q[1], q[2], q[3]>>,
                         (down - up) - (4 * LimbBits - 1), q[4] # 0)

\* f * k for a float f and an integer k, 0 < k <= 2048
FloatMul(f, k) == RoundNearestEven(MulLimbs(f.limbs, k, 0), f.exp, FALSE)

\* int(f): truncation towards zero (for results below 2^17)
FloatToInt(f) ==
    IF f.exp >= 0 THEN LimbsInt(f.limbs) * Pow2(f.exp)
    ELSE LET drop == (0 - f.exp) \div LimbBits
             bits == (0 - f.exp) % LimbBits
         IN  IF drop >= Len(f.limbs) THEN 0
             ELSE LimbsInt(SubSeq(f.limbs, 1, Len(f.limbs) - drop)) \div Pow2(bits)

\* int((completed_count / total_lectures) * 100) if total_lectures > 0 else 0
progress_percent(completed_count, total_lectures) ==
    IF total_lectures > 0
    THEN IF completed_count = 0 THEN 0
         ELSE FloatToInt(FloatMul(FloatDiv(completed_count, total_lectures), 100))
    ELSE 0


(***************************************************************************)
(* The database.  Course and Lecture are keyed by their primary key; the   *)
(* relation tables Enroll, LectureProgress and Review are bags of rows, so *)
(* that two rows with equal columns are two rows: what keeps them apart is *)
(* the unique constraint, not the representation.                          *)
(***************************************************************************)
VARIABLES
    User,             \* ids of the auth User rows
    Course,           \* id -> [course_slug, course_is_active]
    Lecture,          \* id -> [course, lecture_slug]
    Enroll,           \* bag of [user, course]
    LectureProgress,  \* bag of [user, lecture, completed, completed_at, last_accessed]
    Review,           \* bag of [user, course, rating, comment]
    UserProfile,      \* bag of [user, bio]
    now,              \* the reading of timezone.now()
    resp,             \* the response of the last request
    call,             \* arguments of a function under test (SpecPercent, SpecNav)
    ret               \* its result

db   == <<User, Course, Lecture, Enroll, LectureProgress, Review>>
vars == <<User, Course, Lecture, Enroll, LectureProgress, Review, UserProfile, now,
         resp, call, ret>>

CourseIds == {1, 2}
CourseSlugs  == <<"python", "django">>
LectureSlugs == <<"intro", "setup", "views", "forms", "admin", "tests">>

CourseRow(slug, active) == [course_slug |-> slug, course_is_active |-> active]
LectureRow(c, slug)     == [course |-> c, lecture_slug |-> slug]

\* QuerySet.filter(): the rows of a bag that are among keep, as a bag
Filter(table, keep) == [r \in DOMAIN table \cap keep |-> table[r]]
\* QuerySet.filter().count()
Count(table, keep) == BagCardinality(Filter(table, keep))
\* QuerySet.create(): one more row
Insert(table, row) == table (+) SetToBag({row})

(***************************************************************************)
(* Databases the admin site can have set up before the first request.     *)
(***************************************************************************)
\* two users, one course of a single lecture
TwoUsersOneCourse ==
    [User    |-> {1, 2},
     Course  |-> (1 :> CourseRow("python", TRUE)),
     Lecture |-> (1 :> LectureRow(1, "intro"))]

\* two courses whose lectures share the slug "intro"
OneUserTwoCourses ==
    [User    |-> {1},
     Course  |-> (1 :> CourseRow("python", TRUE)) @@ (2 :> CourseRow("django", TRUE)),
     Lecture |-> (1 :> LectureRow(1, "intro")) @@ (2 :> LectureRow(1, "setup"))
                 @@ (3 :> LectureRow(2, "intro"))]

\* one course of MaxLectures lectures
LongCourse ==
    [User    |-> {1},
     Course  |-> (1 :> CourseRow("python", TRUE)),
     Lecture |-> [l \in 1..MaxLectures |-> LectureRow(1, LectureSlugs[l])]]

\* a course without lectures beside an inactive course
EmptyAndInactive ==
    [User    |-> {1},
     Course  |-> (1 :> CourseRow("python", TRUE)) @@ (2 :> CourseRow("django", FALSE)),
     Lecture |-> (1 :> LectureRow(2, "intro"))]

Catalogs == {TwoUsersOneCourse, OneUserTwoCourses, LongCourse, EmptyAndInactive}

NoContext == [kind |-> "none"]
NoCall    == [kind |-> "none"]

\* a request and its response: who asked and when, and what came back
Response(user, view, status, to, message, context) ==
    [user |-> user, at |-> now, view |-> view, status |-> status, to |-> to,
     message |-> message, context |-> context]

NoResponse ==
    [user |-> AnonymousUser, at |-> 1, view |-> "none", status |-> "none", to |-> "",
     message |-> "", context |-> NoContext]

Init ==
    /\ \E k \in Catalogs :
          /\ User = k.User
          /\ Course = k.Course
          /\ Lecture = k.Lecture
    /\ Enroll = EmptyBag
    /\ LectureProgress = EmptyBag
    /\ Review = EmptyBag
    /\ UserProfile = EmptyBag
    /\ now = 1
    /\ resp = NoResponse
    /\ call = NoCall
    /\ ret = << >>

(***************************************************************************)
(* Queries shared by the views.                                            *)
(***************************************************************************)
\* the users a request can come from: a logged-in User row, or nobody
Requesters == User \cup {AnonymousUser}

\* Course.objects.filter(course_slug=course_slug)
CoursesBySlug(course_slug) ==
    {c \in DOMAIN Course : Course[c].course_slug = course_slug}

\* the ids of a set, ascending: .order_by('id')
RECURSIVE OrderById(_)
OrderById(ids) ==
    IF ids = {} THEN << >>
    ELSE LET m == CHOOSE x \in ids : \A y \in ids : x <= y
         IN  <<m>> \o OrderById(ids \ {m})

\* Lecture.objects.filter(course=course).order_by('id')
LecturesOf(course) ==
    OrderById({l \in DOMAIN Lecture : Lecture[l].course = course})

\* a lecture view that never looks for the Enroll row
enrolled_unchecked(user, course) == TRUE

\* Enroll.objects.filter(course=course, user=user).exists()
is_enrolled(user, course) ==
    \E r \in BagToSet(Enroll) : r.user = user /\ r.course = course

\* an Enroll table without its unique constraint
unconstrained_enrollment(user, course) == TRUE

\* the constraint unique_user_course_enrollment admits a new row (user, course)
unique_user_course_enrollment(user, course) ==
    ~ \E r \in BagToSet(Enroll) : r.user = user /\ r.course = course

\* a LectureProgress table without its unique constraint
unconstrained_progress(user, lec) == TRUE

\* the constraint unique_user_lecture_progress admits a new row (user, lecture)
unique_user_lecture_progress(user, lec) ==
    ~ \E r \in BagToSet(LectureProgress) : r.user = user /\ r.lecture = lec

\* the constraint unique_user_course_review admits a new row (user, course)
unique_user_course_review(user, course) ==
    ~ \E r \in BagToSet(Review) : r.user = user /\ r.course = course

\* @login_required: the redirect an anonymous request gets
LoginRedirect(view) == Response(AnonymousUser, view, "redirect", "account_login", "", NoContext)
\* get_object_or_404 found nothing
NotFound(user, view) == Response(user, view, "404", "", "", NoContext)

(***************************************************************************)
(* _get_lecture_context: navigation and progress for a lecture page.       *)
(***************************************************************************)
\* lecture_list[k] with Python's zero-based k
At(lecture_list, k) == lecture_list[k + 1]

\* current_index = None: the loop over lecture_list found no match
NoIndex == -1

\* the loop: the zero-based index of the first lecture with current_lecture's id
CurrentIndex(lecture_list, current_lecture) ==
    LET matches == {i \in 0..(Len(lecture_list) - 1) :
                       At(lecture_list, i) = current_lecture}
    IN  IF matches = {} THEN NoIndex
        ELSE CHOOSE i \in matches : \A j \in matches : i <= j

\* lecture_list[current_index - 1] without the guard: Python reads index -1 as
\* the last element
PreviousLectureUnguarded(lecture_list, current_index) ==
    IF current_index = NoIndex THEN None
    ELSE IF current_index = 0 THEN lecture_list[Len(lecture_list)]
    ELSE lecture_list[current_index]

\* lecture_list[current_index - 1] if current_index and current_index > 0 else None
PreviousLecture(lecture_list, current_index) ==
    IF current_index # NoIndex /\ current_index # 0 /\ current_index > 0
    THEN At(lecture_list, current_index - 1) ELSE None

\* a missing current_index read as index 0
NextLectureFromStart(lecture_list, current_index) ==
    LET index == IF current_index = NoIndex THEN 0 ELSE current_index
    IN  IF index < Len(lecture_list) - 1 THEN lecture_list[index + 2] ELSE None

\* lecture_list[current_index + 1]
\*     if current_index is not None and current_index < len(lecture_list) - 1 else None
NextLecture(lecture_list, current_index) ==
    IF current_index # NoIndex /\ current_index < Len(lecture_list) - 1
    THEN At(lecture_list, current_index + 1) ELSE None

\* current_index + 1 if current_index is not None else 1
CurrentPosition(current_index) ==
    IF current_index # NoIndex THEN current_index + 1 ELSE 1

\* the filter without lecture__course=course
CompletedLectureIdsAnyCourse(user, course, LectureProgress_objects) ==
    {r.lecture : r \in {x \in BagToSet(LectureProgress_objects) :
                           x.user = user /\ x.completed}}

\* the filter with completed_at=now in the place of completed=True
CompletedLectureIdsNow(user, course, LectureProgress_objects) ==
    {r.lecture : r \in {x \in BagToSet(LectureProgress_objects) :
                           /\ x.user = user
                           /\ x.lecture \in DOMAIN Lecture
                           /\ Lecture[x.lecture].course = course
                           /\ x.completed_at = now}}

\* set(LectureProgress.objects.filter(user=user, lecture__course=course,
\*     completed=True).values_list('lecture_id', flat=True))
CompletedLectureIds(user, course, LectureProgress_objects) ==
    {r.lecture : r \in {x \in BagToSet(LectureProgress_objects) :
                           /\ x.user = user
                           /\ x.lecture \in DOMAIN Lecture
                           /\ Lecture[x.lecture].course = course
                           /\ x.completed}}

\* the completed lectures of the course, whoever completed them
AnyViewerCompletedLectureIds(user, course, LectureProgress_objects) ==
    UNION {CompletedLectureIds(u, course, LectureProgress_objects) : u \in User}

\* completed_lecture_ids = set(), filled only "if user and user.is_authenticated"
ViewerCompletedLectureIds(user, course, LectureProgress_objects) ==
    IF user # None /\ user # AnonymousUser
    THEN CompletedLectureIds(user, course, LectureProgress_objects)
    ELSE {}

\* LectureProgress_objects is the table LectureProgress.objects reads when the
\* function runs: in the lecture views, the table after the access is recorded
_get_lecture_context(course, lectures, current_lecture, user, LectureProgress_objects) ==
    LET lecture_list   == lectures
        current_index  == CurrentIndex(lecture_list, current_lecture)
        total_lectures == Len(lecture_list)
        completed_lecture_ids ==
            ViewerCompletedLectureIds(user, course, LectureProgress_objects)
        completed_count == Cardinality(completed_lecture_ids)
        percent == progress_percent(completed_count, total_lectures)
    IN  [previous_lecture      |-> PreviousLecture(lecture_list, current_index),
         next_lecture          |-> NextLecture(lecture_list, current_index),
         progress_percent      |-> percent,
         current_position      |-> CurrentPosition(current_index),
         total_lectures        |-> total_lectures,
         completed_count       |-> completed_count,
         completed_lecture_ids |-> completed_lecture_ids,
         just_completed_course |-> (percent = 100)]

(***************************************************************************)
(* "Mark lecture as completed when accessed": get_or_create, then the     *)
(* completion of a row found not completed.                                *)
(***************************************************************************)
\* Model.save() of a LectureProgress row: auto_now stamps last_accessed
SaveProgress(table, old, new) ==
    Insert(Filter(table, {r \in DOMAIN table : r # old}), [new EXCEPT !.last_accessed = now])

\* LectureProgress.objects.get_or_create(user=, lecture=, defaults=)
get_or_create(user, lec, defaults) ==
    LET found == {r \in BagToSet(LectureProgress) : r.user = user /\ r.lecture = lec}
        row   == [user |-> user, lecture |-> lec,
                  completed |-> defaults.completed,
                  completed_at |-> defaults.completed_at,
                  last_accessed |-> now]
    IN  IF found # {}
        THEN [progress |-> CHOOSE r \in found : TRUE, created |-> FALSE,
              table |-> LectureProgress]
        ELSE IF unique_user_lecture_progress(user, lec)
        THEN [progress |-> row, created |-> TRUE,
              table |-> Insert(LectureProgress, row)]
        ELSE [progress |-> CHOOSE r \in found : TRUE, created |-> FALSE,
              table |-> LectureProgress]

\* the access is not recorded before the navigation is computed
access_not_recorded(user, lec) == LectureProgress

\* an access that flips the completion of the row it finds
record_access_toggle(user, lec) ==
    LET got == get_or_create(user, lec, [completed |-> TRUE, completed_at |-> now])
    IN  IF got.created THEN got.table
        ELSE SaveProgress(got.table, got.progress,
                          [got.progress EXCEPT !.completed = ~ got.progress.completed])

\* update_or_create in the place of get_or_create: every access stamps
\* completed_at again
record_access_restamp(user, lec) ==
    LET got == get_or_create(user, lec, [completed |-> TRUE, completed_at |-> now])
    IN  IF got.created THEN got.table
        ELSE SaveProgress(got.table, got.progress,
                          [got.progress EXCEPT !.completed = TRUE,
                                               !.completed_at = now])

\* the LectureProgress table after the access of lec by user is recorded
record_access(user, lec) ==
    LET got == get_or_create(user, lec, [completed |-> TRUE, completed_at |-> now])
    IN  IF ~ got.progress.completed
        THEN SaveProgress(got.table, got.progress,
                          [got.progress EXCEPT !.completed = TRUE,
                                               !.completed_at = now])
        ELSE got.table

NotEnrolled(user, view) ==
    Response(user, view, "redirect", "course-detail", "Enroll Now to access this course.",
             NoContext)

(***************************************************************************)
(* The views.                                                              *)
(***************************************************************************)
\* @login_required(login_url='account_login') on enroll, lecture,
\* lecture_selected, enrolled_courses and submit_review: a request without an
\* authenticated user never reaches the view
LoginRequiredViews ==
    {"enroll", "lecture", "lecture_selected", "enrolled_courses", "submit_review"}

login_required(view) ==
    /\ resp' = LoginRedirect(view)
    /\ UNCHANGED <<db, now, call, ret, UserProfile>>

\* an enroll that withdraws the enrollment it finds
enroll_toggle(user, course_id) ==
    /\ user # AnonymousUser
    /\ course_id \in DOMAIN Course
    /\ Enroll' = IF unique_user_course_enrollment(user, course_id)
                 THEN Insert(Enroll, [user |-> user, course |-> course_id])
                 ELSE Filter(Enroll, {r \in DOMAIN Enroll :
                                        ~ (r.user = user /\ r.course = course_id)})
    /\ resp' = Response(user, "enroll", "redirect", "lecture",
                        "Successfully enrolled! Start learning now.", NoContext)
    /\ UNCHANGED <<User, Course, Lecture, LectureProgress, Review, now, call, ret, UserProfile>>

\* an enroll that also opens the first lecture of the course for the user
enroll_and_open(user, course_id) ==
    /\ user # AnonymousUser
    /\ course_id \in DOMAIN Course
    /\ Enroll' = Insert(Enroll, [user |-> user, course |-> course_id])
    /\ LectureProgress' = IF LecturesOf(course_id) = << >> THEN LectureProgress
                          ELSE record_access(user, Head(LecturesOf(course_id)))
    /\ resp' = Response(user, "enroll", "redirect", "lecture",
                        "Successfully enrolled! Start learning now.", NoContext)
    /\ UNCHANGED <<User, Course, Lecture, Review, now, call, ret, UserProfile>>

enroll(user, course_id) ==
    /\ user # AnonymousUser
    /\ UNCHANGED <<User, Course, Lecture, LectureProgress, Review, now, call, ret, UserProfile>>
    /\ \/ /\ course_id \notin DOMAIN Course
          /\ resp' = NotFound(user, "enroll")
          /\ UNCHANGED Enroll
       \/ /\ course_id \in DOMAIN Course
          /\ unique_user_course_enrollment(user, course_id)
          /\ Enroll' = Insert(Enroll, [user |-> user, course |-> course_id])
          /\ resp' = Response(user, "enroll", "redirect", "lecture",
                              "Successfully enrolled! Start learning now.", NoContext)
       \/ \* IntegrityError
          /\ course_id \in DOMAIN Course
          /\ ~ unique_user_course_enrollment(user, course_id)
          /\ resp' = Response(user, "enroll", "redirect", "course-detail",
                              "You are already enrolled in this course.", NoContext)
          /\ UNCHANGED Enroll

lecture(user, course_slug) ==
    /\ user # AnonymousUser
    /\ UNCHANGED <<User, Course, Lecture, Enroll, Review, now, call, ret, UserProfile>>
    /\ \/ /\ CoursesBySlug(course_slug) = {}
          /\ resp' = NotFound(user, "lecture")
          /\ UNCHANGED LectureProgress
       \/ \E course \in CoursesBySlug(course_slug) :
             /\ ~ is_enrolled(user, course)
             /\ resp' = NotEnrolled(user, "lecture")
             /\ UNCHANGED LectureProgress
       \/ \E course \in CoursesBySlug(course_slug) :
             LET lectures      == LecturesOf(course)
                 first_lecture == IF lectures = << >> THEN None ELSE Head(lectures)
                 progress      == IF first_lecture # None
                                  THEN record_access(user, first_lecture)
                                  ELSE LectureProgress
             IN  /\ is_enrolled(user, course)
                 /\ LectureProgress' = progress
                 /\ resp' = Response(user, "lecture", "render", "courses/lecture.html", "",
                       [course |-> course,
                        lecture_selected |-> first_lecture,
                        enrolled |-> TRUE,
                        nav |-> IF first_lecture # None
                                THEN _get_lecture_context(course, lectures,
                                         first_lecture, user, progress)
                                ELSE NoContext])

\* a lookup of the lecture by its slug alone
LecturesBySlugAnyCourse(course, lecture_slug) ==
    {l \in DOMAIN Lecture : Lecture[l].lecture_slug = lecture_slug}

\* Lecture.objects.filter(lecture_slug=lecture_slug, course=course)
LecturesBySlug(course, lecture_slug) ==
    {l \in DOMAIN Lecture :
        Lecture[l].lecture_slug = lecture_slug /\ Lecture[l].course = course}

lecture_selected(user, course_slug, lecture_slug) ==
    /\ user # AnonymousUser
    /\ UNCHANGED <<User, Course, Lecture, Enroll, Review, now, call, ret, UserProfile>>
    /\ \/ /\ \/ CoursesBySlug(course_slug) = {}
             \/ \E course \in CoursesBySlug(course_slug) :
                   LecturesBySlug(course, lecture_slug) = {}
          /\ resp' = NotFound(user, "lecture_selected")
          /\ UNCHANGED LectureProgress
       \/ \E course \in CoursesBySlug(course_slug) :
          \E l \in LecturesBySlug(course, lecture_slug) :
             /\ ~ is_enrolled(user, course)
             /\ resp' = NotEnrolled(user, "lecture_selected")
             /\ UNCHANGED LectureProgress
       \/ \E course \in CoursesBySlug(course_slug) :
          \E l \in LecturesBySlug(course, lecture_slug) :
             LET progress == record_access(user, l)
             IN  /\ is_enrolled(user, course)
                 /\ LectureProgress' = progress
                 /\ resp' = Response(user, "lecture_selected", "render",
                                     "courses/lecture_selected.html", "",
                                     [course |-> course,
                                      lecture_selected |-> l,
                                      enrolled |-> TRUE,
                                      nav |-> _get_lecture_context(
                                                 course, LecturesOf(course), l, user,
                                                 progress)])

(***************************************************************************)
(* submit_review: the rating and comment of the form, then the upsert.     *)
(***************************************************************************)
Whitespace == {" "}
DigitValue ==
    ("0" :> 0) @@ ("1" :> 1) @@ ("2" :> 2) @@ ("3" :> 3) @@ ("4" :> 4) @@
    ("5" :> 5) @@ ("6" :> 6) @@ ("7" :> 7) @@ ("8" :> 8) @@ ("9" :> 9)

\* str.strip() on a string given as the sequence of its characters
RECURSIVE LStrip(_)
LStrip(s) == IF s # << >> /\ Head(s) \in Whitespace THEN LStrip(Tail(s)) ELSE s
RECURSIVE RStrip(_)
RStrip(s) ==
    IF s # << >> /\ s[Len(s)] \in Whitespace
    THEN RStrip(SubSeq(s, 1, Len(s) - 1)) ELSE s
Strip(s) == RStrip(LStrip(s))

\* the value of a sequence of decimal digits
RECURSIVE DigitsValue(_)
DigitsValue(s) ==
    IF s = << >> THEN 0
    ELSE 10 * DigitsValue(SubSeq(s, 1, Len(s) - 1)) + DigitValue[s[Len(s)]]

\* int(s) for a string s: [ok |-> FALSE] stands for ValueError
ParseInt(s) ==
    LET t      == Strip(s)
        signed == t # << >> /\ Head(t) \in {"+", "-"}
        digits == IF signed THEN Tail(t) ELSE t
    IN  IF digits # << >> /\ \A i \in 1..Len(digits) : digits[i] \in DOMAIN DigitValue
        THEN [ok |-> TRUE,
              value |-> IF signed /\ Head(t) = "-" THEN 0 - DigitsValue(digits)
                        ELSE DigitsValue(digits)]
        ELSE [ok |-> FALSE, value |-> 0]

\* the try block without the range test: what parses is stored as it is
CleanRatingUnchecked(POST) ==
    LET parsed == IF "rating" \in DOMAIN POST THEN ParseInt(POST.rating)
                  ELSE [ok |-> TRUE, value |-> 5]
    IN  IF parsed.ok THEN parsed.value ELSE 5

\* a range test that moves the rating to the nearest end of 1..5
CleanRatingNearest(POST) ==
    LET parsed == IF "rating" \in DOMAIN POST THEN ParseInt(POST.rating)
                  ELSE [ok |-> TRUE, value |-> 5]
    IN  IF ~ parsed.ok THEN 5
        ELSE IF parsed.value < 1 THEN 1
        ELSE IF parsed.value > 5 THEN 5
        ELSE parsed.value

\* rating = request.POST.get('rating', 5), then the try block
CleanRating(POST) ==
    LET parsed == IF "rating" \in DOMAIN POST THEN ParseInt(POST.rating)
                  ELSE [ok |-> TRUE, value |-> 5]
    IN  IF ~ parsed.ok THEN 5
        ELSE IF parsed.value < 1 \/ parsed.value > 5 THEN 5
        ELSE parsed.value

\* comment = request.POST.get('comment', '').strip()
CleanComment(POST) ==
    IF "comment" \in DOMAIN POST THEN Strip(POST.comment) ELSE << >>

\* get_or_create in the place of update_or_create: a review found is left as it is
get_or_create_review(user, course, defaults) ==
    LET found == {r \in BagToSet(Review) : r.user = user /\ r.course = course}
        row   == [user |-> user, course |-> course,
                  rating |-> defaults.rating, comment |-> defaults.comment]
    IN  IF found # {} THEN [created |-> FALSE, table |-> Review]
        ELSE [created |-> TRUE, table |-> Insert(Review, row)]

\* Review.objects.update_or_create(user=, course=, defaults=)
update_or_create(user, course, defaults) ==
    LET found == {r \in BagToSet(Review) : r.user = user /\ r.course = course}
        row   == [user |-> user, course |-> course,
                  rating |-> defaults.rating, comment |-> defaults.comment]
    IN  IF found # {}
        THEN LET old == CHOOSE r \in found : TRUE
             IN  [created |-> FALSE,
                  table |-> Insert([r \in DOMAIN Review \ {old} |-> Review[r]] (+)
                                   (IF Review[old] > 1
                                    THEN (old :> (Review[old] - 1)) ELSE EmptyBag),
                                   row)]
        ELSE IF unique_user_course_review(user, course)
        THEN [created |-> TRUE, table |-> Insert(Review, row)]
        ELSE [created |-> FALSE, table |-> Review]

\* the forms the model submits: the raw POST data
Submissions ==
    {[rating |-> <<"2">>, comment |-> <<" ", "o", "k", " ">>],
     [rating |-> <<"5">>, comment |-> << >>],
     [rating |-> <<"7">>, comment |-> << >>],
     [rating |-> <<"0">>, comment |-> << >>],
     [rating |-> <<"-", "1">>, comment |-> << >>],
     [rating |-> <<"x">>, comment |-> << >>],
     [rating |-> << >>, comment |-> << >>],
     [comment |-> << >>]}

submit_review(user, method, course_slug, POST) ==
    /\ user # AnonymousUser
    /\ UNCHANGED <<User, Course, Lecture, Enroll, LectureProgress, now, call, ret, UserProfile>>
    /\ \/ /\ method # "POST"
          /\ resp' = Response(user, "submit_review", "redirect", "course-detail", "",
                              NoContext)
          /\ UNCHANGED Review
       \/ /\ method = "POST"
          /\ CoursesBySlug(course_slug) = {}
          /\ resp' = NotFound(user, "submit_review")
          /\ UNCHANGED Review
       \/ /\ method = "POST"
          /\ \E course \in CoursesBySlug(course_slug) :
                /\ ~ is_enrolled(user, course)
                /\ resp' = Response(user, "submit_review", "redirect", "course-detail",
                                    "You must be enrolled to leave a review.",
                                    NoContext)
                /\ UNCHANGED Review
       \/ /\ method = "POST"
          /\ \E course \in CoursesBySlug(course_slug) :
                LET upsert == update_or_create(user, course,
                                  [rating |-> CleanRating(POST),
                                   comment |-> CleanComment(POST)])
                IN  /\ is_enrolled(user, course)
                    /\ Review' = upsert.table
                    /\ resp' = Response(user, "submit_review", "redirect", "course-detail",
                                        IF upsert.created
                                        THEN "Thank you for your review!"
                                        ELSE "Your review has been updated.",
                                        [created |-> upsert.created])

(***************************************************************************)
(* The read-only pages.                                                    *)
(***************************************************************************)
course_detail(user, course_slug) ==
    /\ UNCHANGED <<db, now, call, ret, UserProfile>>
    /\ \/ /\ CoursesBySlug(course_slug) = {}
          /\ resp' = NotFound(user, "course_detail")
       \/ \E course \in CoursesBySlug(course_slug) :
             LET authenticated == user # AnonymousUser
                 lectures  == LecturesOf(course)
                 enrolled  == authenticated /\ is_enrolled(user, course)
                 total     == Len(lectures)
                 completed_count ==
                     IF enrolled
                     THEN Count(LectureProgress,
                                {r \in DOMAIN LectureProgress :
                                    /\ r.user = user
                                    /\ r.lecture \in DOMAIN Lecture
                                    /\ Lecture[r.lecture].course = course
                                    /\ r.completed})
                     ELSE 0
             IN  resp' = Response(user, "course_detail", "render",
                                  "courses/course_detail.html", "",
                                  [enrolled |-> enrolled,
                                   lecture_count |-> Len(lectures),
                                   review_count |->
                                       Count(Review, {r \in DOMAIN Review : r.course = course}),
                                   user_review |->
                                       IF authenticated
                                       THEN {r \in BagToSet(Review) :
                                               r.course = course /\ r.user = user}
                                       ELSE {},
                                   user_progress |->
                                       IF enrolled
                                       THEN progress_percent(completed_count, total)
                                       ELSE 0,
                                   completed_count |-> completed_count])

\* the rows of FROM course LEFT JOIN lecture LEFT JOIN lectureprogress for one
\* course: a lecture without progress gives one row with no progress in it
JoinRows(course) ==
    LET lecs == {l \in DOMAIN Lecture : Lecture[l].course = course}
    IN  [l \in lecs |-> Filter(LectureProgress, {r \in DOMAIN LectureProgress : r.lecture = l})]

\* the sum of the values of a function with a finite domain
RECURSIVE SumFn(_)
SumFn(f) ==
    IF DOMAIN f = {} THEN 0
    ELSE LET x == CHOOSE y \in DOMAIN f : TRUE
         IN  f[x] + SumFn([z \in DOMAIN f \ {x} |-> f[z]])

enrolled_courses(user) ==
    /\ UNCHANGED <<db, now, call, ret, UserProfile>>
    /\ user # AnonymousUser
    /\ LET enrolled_course_ids ==
                     {r.course : r \in {x \in BagToSet(Enroll) : x.user = user}}
                 \* Count('lectures'): the joined rows that hold a lecture
                 total_lectures(course) ==
                     SumFn([l \in DOMAIN JoinRows(course) |->
                              IF JoinRows(course)[l] = EmptyBag THEN 1
                              ELSE BagCardinality(JoinRows(course)[l])])
                 \* Count('lectures__progress', filter=Q(user, completed))
                 completed_lectures(course) ==
                     SumFn([l \in DOMAIN JoinRows(course) |->
                              Count(JoinRows(course)[l],
                                    {r \in DOMAIN JoinRows(course)[l] :
                                        r.user = user /\ r.completed})])
             IN  resp' = Response(user, "enrolled_courses", "render",
                                  "courses/enrolled_courses.html", "",
                                  [courses |->
                                     {[course    |-> c,
                                       progress  |-> progress_percent(
                                                        completed_lectures(c),
                                                        total_lectures(c)),
                                       completed |-> completed_lectures(c),
                                       total     |-> total_lectures(c)] :
                                      c \in {x \in DOMAIN Course :
                                                x \in enrolled_course_ids}}])

\* time passes between two requests
Tick ==
    /\ now < MaxTime
    /\ now' = now + 1
    /\ UNCHANGED <<db, resp, call, ret, UserProfile>>

Next ==
    \/ \E view \in LoginRequiredViews : login_required(view)
    \/ \E user \in User, course_id \in CourseIds : enroll(user, course_id)
    \/ \E user \in User, c \in CourseIds : lecture(user, CourseSlugs[c])
    \/ \E user \in User, c \in CourseIds, l \in 1..MaxLectures :
          lecture_selected(user, CourseSlugs[c], LectureSlugs[l])
    \/ \E user \in User, c \in CourseIds, POST \in Submissions :
          submit_review(user, "POST", CourseSlugs[c], POST)
    \/ \E user \in User, c \in CourseIds :
          submit_review(user, "GET", CourseSlugs[c], << >>)
    \/ \E user \in Requesters, c \in CourseIds : course_detail(user, CourseSlugs[c])
    \/ \E user \in User : enrolled_courses(user)
    \/ Tick

Spec == Init /\ [][Next]_vars

(***************************************************************************)
(* progress_percent on its own: every completed count of every course of   *)
(* up to MaxTotal lectures.                                                *)
(***************************************************************************)
EmptyDatabase ==
    /\ User = {} /\ Course = << >> /\ Lecture = << >>
    /\ Enroll = EmptyBag /\ LectureProgress = EmptyBag /\ Review = EmptyBag
    /\ UserProfile = EmptyBag

InitPercent ==
    /\ EmptyDatabase
    /\ now = 1
    /\ resp = NoResponse
    /\ call \in {[completed |-> c, total |-> t] :
                    c \in 0..MaxTotal, t \in 0..MaxTotal}
    /\ call.completed <= call.total
    /\ ret = << >>

EvalPercent ==
    /\ ret = << >>
    /\ ret' = <<progress_percent(call.completed, call.total)>>
    /\ UNCHANGED <<db, now, resp, call, UserProfile>>

SpecPercent == InitPercent /\ [][EvalPercent]_vars

(***************************************************************************)
(* _get_lecture_context on its own: every course of a catalog, every       *)
(* current lecture (of the course, of another course, or of no row at      *)
(* all), every requester, every Enroll table and every LectureProgress      *)
(* table with at most one row per pair.                                    *)
(***************************************************************************)
\* the tables of LectureProgress rows over users and lecs, one row at most for
\* each (user, lecture); "none" marks a pair without a row
ProgressTables(users, lecs) ==
    {SetToBag({[user |-> p[1], lecture |-> p[2], completed |-> (f[p] = "completed"),
                completed_at |-> 1, last_accessed |-> 1] :
               p \in {q \in users \X lecs : f[q] # "none"}}) :
     f \in [users \X lecs -> {"none", "completed", "started"}]}

InitNav ==
    /\ \E k \in Catalogs :
          /\ User = k.User
          /\ Course = k.Course
          /\ Lecture = k.Lecture
    /\ Enroll \in {SetToBag(rows) : rows \in SUBSET [user : User, course : DOMAIN Course]}
    /\ Review = EmptyBag
    /\ UserProfile = EmptyBag
    /\ LectureProgress \in ProgressTables(User, DOMAIN Lecture)
    /\ now = 1
    /\ resp = NoResponse
    /\ call \in [course : DOMAIN Course,
                 current_lecture : 1..(MaxLectures + 1),
                 user : Requesters]
    /\ ret = << >>

\* a call that also records the current lecture as completed by the user
EvalNavRecording ==
    /\ Len(ret) < 2
    /\ call.user # AnonymousUser
    /\ call.current_lecture \in DOMAIN Lecture
    /\ LectureProgress' = record_access(call.user, call.current_lecture)
    /\ ret' = Append(ret, _get_lecture_context(call.course, LecturesOf(call.course),
                                               call.current_lecture, call.user,
                                               record_access(call.user,
                                                             call.current_lecture)))
    /\ UNCHANGED <<User, Course, Lecture, Enroll, Review, now, resp, call, UserProfile>>

\* the call, and the same call once more on the same tables
EvalNav ==
    /\ Len(ret) < 2
    /\ ret' = Append(ret, _get_lecture_context(call.course, LecturesOf(call.course),
                                               call.current_lecture, call.user,
                                               LectureProgress))
    /\ UNCHANGED <<db, now, resp, call, UserProfile>>

SpecNav == InitNav /\ [][EvalNav]_vars

(***************************************************************************)
(* What the properties below read off a state.                            *)
(***************************************************************************)
\* the number of Enroll rows of a table that join user and course
EnrollmentsOf(table, user, course) ==
    Count(table, {r \in DOMAIN table : r.user = user /\ r.course = course})

\* the LectureProgress rows of a table for user and lec
ProgressOf(table, user, lec) ==
    Filter(table, {r \in DOMAIN table : r.user = user /\ r.lecture = lec})

\* the response is a lecture page: the access of a lecture went through
LecturePage(r) ==
    /\ r.view \in {"lecture", "lecture_selected"}
    /\ r.status = "render"
    /\ r.context.lecture_selected # None

\* this step is a request of user for lecture lec, through either lecture view,
\* that ends in the lecture page
Accesses(user, lec) ==
    /\ LecturePage(resp')
    /\ resp'.user = user
    /\ resp'.context.lecture_selected = lec
    /\ \/ /\ resp'.view = "lecture"
          /\ lecture(user, Course[Lecture[lec].course].course_slug)
       \/ /\ resp'.view = "lecture_selected"
          /\ lecture_selected(user, Course[Lecture[lec].course].course_slug,
                              Lecture[lec].lecture_slug)

\* this step is a request of user for a lecture page of course, through either view
RequestsLectureOf(user, course) ==
    \/ lecture(user, Course[course].course_slug)
    \/ \E lec \in DOMAIN Lecture :
          /\ Lecture[lec].course = course
          /\ lecture_selected(user, Course[course].course_slug,
                              Lecture[lec].lecture_slug)

(***************************************************************************)
(* C1: a (user, course) pair never has more than one Enroll row.  The     *)
(* first enroll of a pair adds exactly one row; every later enroll of the *)
(* pair leaves the Enroll table as it is and answers "You are already     *)
(* enrolled in this course."                                               *)
(***************************************************************************)
C1_OneEnrollmentPerPair ==
    [][\A user \in User, course \in DOMAIN Course :
          /\ EnrollmentsOf(Enroll', user, course) <= 1
          /\ enroll(user, course) =>
                IF EnrollmentsOf(Enroll, user, course) = 0
                THEN /\ EnrollmentsOf(Enroll', user, course) = 1
                     /\ BagCardinality(Enroll') = BagCardinality(Enroll) + 1
                ELSE /\ Enroll' = Enroll
                     /\ resp'.status = "redirect"
                     /\ resp'.message = "You are already enrolled in this course."
      ]_vars

\* a second enroll of a pair was answered as a duplicate, and the pair has one row
C1_DuplicateRejected ==
    /\ resp.view = "enroll"
    /\ resp.message = "You are already enrolled in this course."
    /\ \E course \in DOMAIN Course : EnrollmentsOf(Enroll, resp.user, course) = 1
    /\ BagCardinality(Enroll) = 1

(***************************************************************************)
(* C2: every LectureProgress row belongs to a user who has an Enroll row  *)
(* for the course of the row's lecture.  A request for a lecture page of  *)
(* an existing course (and, through lecture_selected, an existing lecture *)
(* of it) by a user without that Enroll row leaves the LectureProgress    *)
(* table as it is and is redirected with "Enroll Now to access this       *)
(* course."                                                                *)
(***************************************************************************)
C2_NoProgressWithoutEnrollment ==
    [][/\ \A r \in BagToSet(LectureProgress') :
             EnrollmentsOf(Enroll', r.user, Lecture'[r.lecture].course) >= 1
       /\ \A user \in User, course \in DOMAIN Course :
             (EnrollmentsOf(Enroll, user, course) = 0
                 /\ RequestsLectureOf(user, course))
             => /\ LectureProgress' = LectureProgress
                /\ resp'.status = "redirect"
                /\ resp'.to = "course-detail"
                /\ resp'.message = "Enroll Now to access this course."
      ]_vars

\* a user without any enrollment asked for a lecture, was sent back, and has no
\* progress, while another user's progress is recorded
C2_TurnedAway ==
    /\ resp.view \in {"lecture", "lecture_selected"}
    /\ resp.message = "Enroll Now to access this course."
    /\ \A course \in DOMAIN Course : EnrollmentsOf(Enroll, resp.user, course) = 0
    /\ \A r \in BagToSet(LectureProgress) : r.user # resp.user
    /\ LectureProgress # EmptyBag

(***************************************************************************)
(* C3: a LectureProgress row that is completed stays completed: after     *)
(* every step the same (user, lecture) still has a completed row.         *)
(***************************************************************************)
C3_MonotonicCompletion ==
    [][\A r \in BagToSet(LectureProgress) :
          r.completed =>
             /\ BagCardinality(ProgressOf(LectureProgress', r.user, r.lecture)) >= 1
             /\ \A q \in BagToSet(ProgressOf(LectureProgress', r.user, r.lecture)) :
                   q.completed
      ]_vars

\* a lecture completed earlier was opened again after another lecture was
\* completed, and both are still completed
C3_ReopenedStillCompleted ==
    /\ LecturePage(resp)
    /\ \E r, q \in BagToSet(LectureProgress) :
          /\ r.user = resp.user /\ q.user = resp.user
          /\ r.lecture = resp.context.lecture_selected
          /\ r.lecture # q.lecture
          /\ r.completed /\ q.completed
          /\ r.completed_at < q.completed_at
          /\ q.completed_at <= resp.at

(***************************************************************************)
(* C4: a lecture_selected request of an enrolled user for a lecture ends   *)
(* nowhere but in the page of that lecture, the first time and every later *)
(* time; and every access that ends in the page of a lecture leaves        *)
(* exactly one LectureProgress row for (user, lecture), which is completed *)
(* and whose completed_at is the time of the first access: the access that *)
(* creates the row stamps the current time, every later access keeps the   *)
(* stamp.                                                                  *)
(***************************************************************************)
C4_IdempotentAccess ==
    [][\A user \in User, lec \in DOMAIN Lecture :
          /\ (/\ resp'.view = "lecture_selected"
              /\ resp'.user = user
              /\ ~ (LecturePage(resp') /\ resp'.context.lecture_selected = lec)
              /\ EnrollmentsOf(Enroll, user, Lecture[lec].course) >= 1)
             => ~ lecture_selected(user, Course[Lecture[lec].course].course_slug,
                                   Lecture[lec].lecture_slug)
          /\ Accesses(user, lec) =>
                LET before == ProgressOf(LectureProgress, user, lec)
                    after  == ProgressOf(LectureProgress', user, lec)
                IN  /\ BagCardinality(after) = 1
                    /\ \A q \in BagToSet(after) :
                          /\ q.completed
                          /\ IF before = EmptyBag
                             THEN q.completed_at = now
                             ELSE \A r \in BagToSet(before) :
                                     q.completed_at = r.completed_at
      ]_vars

\* a lecture was opened again at a later time than its first access, and its row
\* still carries the time of the first access
C4_SecondAccessKeepsStamp ==
    /\ LecturePage(resp)
    /\ BagCardinality(ProgressOf(LectureProgress, resp.user,
                                 resp.context.lecture_selected)) = 1
    /\ \A r \in BagToSet(ProgressOf(LectureProgress, resp.user,
                                    resp.context.lecture_selected)) :
          r.completed /\ r.completed_at < resp.at

(***************************************************************************)
(* C5: after every access of a lecture by an enrolled user, the            *)
(* last_accessed of the (user, lecture) row is the time of that access.    *)
(***************************************************************************)
C5_LastAccessedRefreshed ==
    [][\A user \in User, lec \in DOMAIN Lecture :
          Accesses(user, lec) =>
             \A q \in BagToSet(ProgressOf(LectureProgress', user, lec)) :
                q.last_accessed = now
      ]_vars

(***************************************************************************)
(* C6: for every total_lectures >= 1 and every completed count c with      *)
(* 0 <= c <= total_lectures, progress_percent is the exact integer         *)
(* floor(100 * c / total_lectures); for total_lectures = 0 it is 0.        *)
(***************************************************************************)
C6_ExactFloorPercent ==
    ret # << >> =>
       ret[1] = IF call.total >= 1 THEN (100 * call.completed) \div call.total
                ELSE 0

(***************************************************************************)
(* C7: on a lecture page, with the current lecture at place k (counted     *)
(* from 1) of the n lectures of its course in id order: previous_lecture   *)
(* is the lecture at place k-1, none when k = 1; next_lecture is the       *)
(* lecture at place k+1, none when k = n; current_position is k and        *)
(* total_lectures is n.                                                    *)
(***************************************************************************)
C7_NavigationBoundaries ==
    LecturePage(resp) =>
       LET current == resp.context.lecture_selected
           ordered == LecturesOf(Lecture[current].course)
           n       == Cardinality({l \in DOMAIN Lecture :
                                     Lecture[l].course = Lecture[current].course})
           nav     == resp.context.nav
       IN  /\ Len(ordered) = n
           /\ \A i \in 1..(n - 1) : ordered[i] < ordered[i + 1]
           /\ \E k \in 1..n :
                 /\ ordered[k] = current
                 /\ nav.previous_lecture = IF k > 1 THEN ordered[k - 1] ELSE None
                 /\ nav.next_lecture = IF k < n THEN ordered[k + 1] ELSE None
                 /\ nav.current_position = k
                 /\ nav.total_lectures = n

\* the second of three lectures is on the page: previous is the first, next the
\* third, position 2 of 3
C7_MiddleOfThree ==
    /\ LecturePage(resp)
    /\ resp.context.lecture_selected = 2
    /\ resp.context.nav.previous_lecture = 1
    /\ resp.context.nav.next_lecture = 3
    /\ resp.context.nav.current_position = 2
    /\ resp.context.nav.total_lectures = 3

\* _get_lecture_context was called with a current lecture that is not among the
\* lectures of the course
NotFoundCall ==
    /\ ret # << >>
    /\ \A i \in 1..Len(LecturesOf(call.course)) :
          LecturesOf(call.course)[i] # call.current_lecture

(***************************************************************************)
(* C8 as the specification states it: when the current lecture is not      *)
(* among the lectures, the result is the one for the first lecture:        *)
(* current_position 1, previous none, and next the second lecture when     *)
(* there are at least two.                                                 *)
(***************************************************************************)
C8_NotFoundReadAsFirst ==
    NotFoundCall =>
       /\ ret[1].current_position = 1
       /\ ret[1].previous_lecture = None
       /\ Len(LecturesOf(call.course)) >= 2 =>
             ret[1].next_lecture = LecturesOf(call.course)[2]

(***************************************************************************)
(* C8 as the code has it: when the current lecture is not among the        *)
(* lectures, current_position is 1, previous is none and next is none,     *)
(* however many lectures there are; total_lectures is still their number.  *)
(***************************************************************************)
C8_NotFoundHasNoNeighbours ==
    NotFoundCall =>
       /\ ret[1].current_position = 1
       /\ ret[1].previous_lecture = None
       /\ ret[1].next_lecture = None
       /\ ret[1].total_lectures = Len(LecturesOf(call.course))

\* a current lecture that is not among the two lectures of the course: no next
C8_NotFoundAmongTwo ==
    /\ NotFoundCall
    /\ Len(LecturesOf(call.course)) >= 2
    /\ ret[1].next_lecture = None
    /\ ret[1].current_position = 1

\* the page of the response says the course was just completed
JustCompleted(r) ==
    /\ "just_completed_course" \in DOMAIN r.context.nav
    /\ r.context.nav.just_completed_course

\* the course has a lecture, and user has a completed row for every lecture of it
AllCompleted(table, user, course) ==
    /\ \E l \in DOMAIN Lecture : Lecture[l].course = course
    /\ \A l \in DOMAIN Lecture :
          Lecture[l].course = course =>
             \E r \in BagToSet(ProgressOf(table, user, l)) : r.completed

ReviewsOf(table, user, course) ==
    Filter(table, {r \in DOMAIN table : r.user = user /\ r.course = course})

(***************************************************************************)
(* C10: a (user, course) pair never has more than one Review row.  After   *)
(* a POST to submit_review by an enrolled user the pair has exactly one    *)
(* row, holding the rating and the comment of this submission as the view  *)
(* reads them (a rating of "2" is stored as 2, a comment without its       *)
(* surrounding blanks); no row of another pair is added or removed; and    *)
(* the created flag is true exactly when the pair had no row before.       *)
(***************************************************************************)
C10_ReviewUpsert ==
    [][\A user \in User, course \in DOMAIN Course :
          /\ BagCardinality(ReviewsOf(Review', user, course)) <= 1
          /\ (/\ resp'.view = "submit_review"
              /\ resp'.user = user
              /\ EnrollmentsOf(Enroll, user, course) >= 1)
             => \A POST \in Submissions :
                   LET before == ReviewsOf(Review, user, course)
                       after  == ReviewsOf(Review', user, course)
                   IN  \/ /\ BagCardinality(after) = 1
                          /\ \A q \in BagToSet(after) :
                                /\ q.rating = CleanRating(POST)
                                /\ q.comment = CleanComment(POST)
                                /\ POST = [rating |-> <<"2">>,
                                           comment |-> <<" ", "o", "k", " ">>]
                                   => q.rating = 2 /\ q.comment = <<"o", "k">>
                          /\ BagCardinality(Review') =
                                BagCardinality(Review)
                                   + (IF before = EmptyBag THEN 1 ELSE 0)
                          /\ "created" \in DOMAIN resp'.context
                          /\ resp'.context.created <=> (before = EmptyBag)
                       \/ ~ submit_review(user, "POST", Course[course].course_slug,
                                          POST)
      ]_vars

\* a review was replaced: the answer says updated, and the one row of the pair
\* holds the rating 2 and the comment of the last form
C10_UpdatedInPlace ==
    /\ resp.view = "submit_review"
    /\ resp.message = "Your review has been updated."
    /\ ~ resp.context.created
    /\ \E course \in DOMAIN Course :
          /\ BagCardinality(ReviewsOf(Review, resp.user, course)) = 1
          /\ \A q \in BagToSet(ReviewsOf(Review, resp.user, course)) :
                q.rating = 2 /\ q.comment = <<"o", "k">>
    /\ BagCardinality(Review) = 1

\* the integer a rating field of the forms denotes; a field that is no integer
\* ("x", the empty string) denotes none
RatingDenoted ==
    (<<"2">> :> 2) @@ (<<"5">> :> 5) @@ (<<"7">> :> 7) @@ (<<"0">> :> 0)
    @@ (<<"-", "1">> :> 0 - 1)

\* the form carries a rating that is an integer in 1..5
RatingInRange(POST) ==
    /\ "rating" \in DOMAIN POST
    /\ POST.rating \in DOMAIN RatingDenoted
    /\ RatingDenoted[POST.rating] \in 1..5

\* this step is a POST of the form to submit_review by user for course
Submits(user, course, POST) ==
    /\ resp'.view = "submit_review"
    /\ resp'.user = user
    /\ submit_review(user, "POST", Course[course].course_slug, POST)

(***************************************************************************)
(* C11: every stored Review.rating is an integer in 1..5.  After a POST by *)
(* an enrolled user, the rating of the row is the submitted integer when   *)
(* the form carries an integer in 1..5, and 5 when the rating is below 1,  *)
(* above 5, missing or no integer (7 is stored as 5, 0 is stored as 5).    *)
(***************************************************************************)
C11_RatingClamped ==
    [][/\ \A r \in BagToSet(Review') : r.rating \in 1..5
       /\ \A user \in User, course \in DOMAIN Course :
             (/\ resp'.view = "submit_review"
              /\ resp'.user = user
              /\ EnrollmentsOf(Enroll, user, course) >= 1)
             => \A POST \in Submissions :
                   \/ /\ ReviewsOf(Review', user, course) # EmptyBag
                      /\ \A q \in BagToSet(ReviewsOf(Review', user, course)) :
                            q.rating = IF RatingInRange(POST)
                                       THEN RatingDenoted[POST.rating] ELSE 5
                   \/ ~ Submits(user, course, POST)
      ]_vars

\* a review was replaced by a submission stored as 5 with an empty comment, while
\* another review holds the rating 2 that was submitted for it
C11_StoredAsFive ==
    /\ resp.view = "submit_review"
    /\ resp.message = "Your review has been updated."
    /\ \E course \in DOMAIN Course :
          /\ ReviewsOf(Review, resp.user, course) # EmptyBag
          /\ \A q \in BagToSet(ReviewsOf(Review, resp.user, course)) :
                q.rating = 5 /\ q.comment = << >>
    /\ BagCardinality(Review) = 2
    /\ \E q \in BagToSet(Review) : q.rating = 2

(***************************************************************************)
(* C12: every Review row belongs to a user who has an Enroll row for the   *)
(* course of the review.  A POST to submit_review for an existing course   *)
(* by a user without that Enroll row leaves the Review table as it is and  *)
(* is redirected with "You must be enrolled to leave a review."            *)
(***************************************************************************)
C12_ReviewNeedsEnrollment ==
    [][/\ \A r \in BagToSet(Review') : EnrollmentsOf(Enroll', r.user, r.course) >= 1
       /\ \A user \in User, course \in DOMAIN Course :
             (/\ resp'.view = "submit_review"
              /\ resp'.user = user
              /\ EnrollmentsOf(Enroll, user, course) = 0)
             => \A POST \in Submissions :
                   \/ /\ Review' = Review
                      /\ resp'.status = "redirect"
                      /\ resp'.to = "course-detail"
                      /\ resp'.message = "You must be enrolled to leave a review."
                   \/ ~ Submits(user, course, POST)
      ]_vars

\* a user without any enrollment posted a review and was turned away; the only
\* review stored is another user's
C12_ReviewTurnedAway ==
    /\ resp.view = "submit_review"
    /\ resp.message = "You must be enrolled to leave a review."
    /\ \A course \in DOMAIN Course : EnrollmentsOf(Enroll, resp.user, course) = 0
    /\ \A r \in BagToSet(Review) : r.user # resp.user
    /\ Review # EmptyBag

\* the form carries a rating that is an integer outside 1..5
RatingOutOfRange(POST) ==
    /\ "rating" \in DOMAIN POST
    /\ POST.rating \in DOMAIN RatingDenoted
    /\ RatingDenoted[POST.rating] \notin 1..5

(***************************************************************************)
(* C13 as the specification states it: the outcome of a submission with a  *)
(* rating out of range differs from the not-enrolled outcome and from the  *)
(* outcome of every submission with a rating in range: no step that is a   *)
(* submission with a rating out of range is also a submission with a       *)
(* rating in range.                                                        *)
(***************************************************************************)
C13_OutOfRangeSurfaced ==
    [][\A user \in User, course \in DOMAIN Course :
          (/\ resp'.view = "submit_review"
           /\ resp'.user = user
           /\ EnrollmentsOf(Enroll, user, course) >= 1)
          => \A POST \in Submissions :
                (RatingOutOfRange(POST) /\ Submits(user, course, POST))
                => /\ resp'.message # "You must be enrolled to leave a review."
                   /\ \A valid \in Submissions :
                         RatingInRange(valid) => ~ Submits(user, course, valid)
      ]_vars

(***************************************************************************)
(* C13 as the code has it: the not-enrolled outcome has a message of its   *)
(* own, but a rating out of range is not surfaced.  A submission by an     *)
(* enrolled user with a rating out of range is answered with one of the    *)
(* two success messages and is, in the response and in the row it leaves,  *)
(* the same step as the submission of the rating 5 with the same comment.  *)
(***************************************************************************)
C13_OutOfRangeSilent ==
    [][\A user \in User, course \in DOMAIN Course :
          (/\ resp'.view = "submit_review"
           /\ resp'.user = user)
          => \A POST \in Submissions :
                IF EnrollmentsOf(Enroll, user, course) = 0
                THEN \/ resp'.message = "You must be enrolled to leave a review."
                     \/ ~ Submits(user, course, POST)
                ELSE /\ \/ resp'.message \in {"Thank you for your review!",
                                              "Your review has been updated."}
                        \/ ~ Submits(user, course, POST)
                     /\ (RatingOutOfRange(POST) /\ Submits(user, course, POST))
                        => Submits(user, course,
                                   [rating |-> <<"5">>, comment |-> POST.comment])
      ]_vars

\* a first review was answered with thanks and stored as 5 with an empty comment:
\* the outcome of the ratings 7, 0 and -1 as well as of the rating 5
C13_ThankedAndStoredAsFive ==
    /\ resp.view = "submit_review"
    /\ resp.message = "Thank you for your review!"
    /\ resp.context.created
    /\ \E q \in BagToSet(Review) :
          q.user = resp.user /\ q.rating = 5 /\ q.comment = << >>
    /\ BagCardinality(Review) = 1

\* no Course row has this id, or the row is not active
MissingOrInactive(course_id) ==
    \/ course_id \notin DOMAIN Course
    \/ ~ Course[course_id].course_is_active

\* this step is a request of user that names the course: by its id for enroll,
\* by its slug for the other views
Names(user, course_id) ==
    \/ enroll(user, course_id)
    \/ lecture(user, CourseSlugs[course_id])
    \/ \E l \in 1..MaxLectures :
          lecture_selected(user, CourseSlugs[course_id], LectureSlugs[l])
    \/ \E POST \in Submissions :
          submit_review(user, "POST", CourseSlugs[course_id], POST)
    \/ course_detail(user, CourseSlugs[course_id])

(***************************************************************************)
(* C14: a request (enroll, lecture, lecture_selected, submit_review,       *)
(* course_detail) that names a course which does not exist or is not       *)
(* active ends in the not-found response and leaves the Enroll,            *)
(* LectureProgress and Review tables as they are.                          *)
(***************************************************************************)
C14_MissingOrInactiveNotFound ==
    [][\A user \in User, course_id \in CourseIds :
          (MissingOrInactive(course_id) /\ Names(user, course_id))
          => /\ resp'.status = "404"
             /\ UNCHANGED <<Enroll, LectureProgress, Review>>
      ]_vars

(***************************************************************************)
(* C15: an enroll request, accepted or rejected as a duplicate, leaves     *)
(* every Lecture, LectureProgress and Review row (and every Course and     *)
(* User row) as it is; the Enroll table is either unchanged or larger by   *)
(* the one row (user, course).                                             *)
(***************************************************************************)
C15_EnrollFrame ==
    [][\A user \in User, course_id \in CourseIds :
          (/\ resp'.view = "enroll"
           /\ resp'.user = user
           /\ enroll(user, course_id))
          => /\ UNCHANGED <<User, Course, Lecture, LectureProgress, Review>>
             /\ \/ Enroll' = Enroll
                \/ Enroll' = Enroll (+) SetToBag({[user |-> user, course |-> course_id]})
      ]_vars

\* a second course was enrolled in while progress and a review of the first
\* course were stored, and both are still there
C15_EnrolledBesideProgress ==
    /\ resp.view = "enroll"
    /\ resp.message = "Successfully enrolled! Start learning now."
    /\ BagCardinality(Enroll) = 2
    /\ \A r \in BagToSet(Enroll) : r.user = resp.user
    /\ LectureProgress # EmptyBag
    /\ Review # EmptyBag

(***************************************************************************)
(* Requests served at the same time.  Each worker thread serves one        *)
(* request; a step of a thread is one query of its view, and the queries   *)
(* of different threads interleave in every order.  call[t] is the request *)
(* of thread t with the position and the local variables of its view,      *)
(* ret[t] its response.  A statement (INSERT, UPDATE, SELECT) is atomic    *)
(* and the unique constraints are enforced by the INSERT.                  *)
(***************************************************************************)
Threads == 1..MaxThreads

NoProgress ==
    [user |-> None, lecture |-> None, completed |-> FALSE, completed_at |-> 0,
     last_accessed |-> 0]

\* a request that has just arrived
Request(view, user, course_id, course_slug, lecture_slug) ==
    [view |-> view, user |-> user, course_id |-> course_id,
     course_slug |-> course_slug, lecture_slug |-> lecture_slug,
     pc |-> "start", course |-> None, lecture_selected |-> None,
     progress |-> NoProgress, lecture_list |-> << >>]

\* the requests of logged-in users for enroll and for lecture_selected
Requests ==
    {Request("enroll", user, c, "", "") :
        user \in TwoUsersOneCourse.User, c \in CourseIds}
    \cup {Request("lecture_selected", user, None, CourseSlugs[c], LectureSlugs[1]) :
            user \in TwoUsersOneCourse.User, c \in CourseIds}

InitRace ==
    /\ User = TwoUsersOneCourse.User
    /\ Course = TwoUsersOneCourse.Course
    /\ Lecture = TwoUsersOneCourse.Lecture
    /\ Enroll \in {EmptyBag, SetToBag({[user |-> 1, course |-> 1]})}
    /\ LectureProgress \in ProgressTables({1}, {1})
    /\ Review = EmptyBag
    /\ UserProfile = EmptyBag
    /\ now = 1
    /\ resp = NoResponse
    /\ call \in [Threads -> Requests]
    /\ ret = [t \in Threads |-> NoResponse]

\* thread t moves on to pc with its local variables as in request
Goto(t, request, pc) ==
    /\ call' = [call EXCEPT ![t] = [request EXCEPT !.pc = pc]]
    /\ UNCHANGED ret

\* thread t answers and is done
Return(t, response) ==
    /\ ret' = [ret EXCEPT ![t] = response]
    /\ call' = [call EXCEPT ![t].pc = "done"]

\* enroll: get_object_or_404(Course, id=course_id)
EnrollGetCourse(t) ==
    /\ call[t].view = "enroll" /\ call[t].pc = "start"
    /\ IF call[t].course_id \in DOMAIN Course
       THEN Goto(t, [call[t] EXCEPT !.course = call[t].course_id], "create")
       ELSE Return(t, NotFound(call[t].user, "enroll"))
    /\ UNCHANGED <<db, now, resp, UserProfile>>

\* enroll: Enroll.objects.create(user=request.user, course=course), the INSERT
\* that the constraint unique_user_course_enrollment admits or refuses
EnrollCreate(t) ==
    /\ call[t].view = "enroll" /\ call[t].pc = "create"
    /\ IF unique_user_course_enrollment(call[t].user, call[t].course)
       THEN /\ Enroll' = Insert(Enroll, [user |-> call[t].user, course |-> call[t].course])
            /\ Goto(t, call[t], "created")
       ELSE /\ UNCHANGED Enroll
            /\ Goto(t, call[t], "IntegrityError")
    /\ UNCHANGED <<User, Course, Lecture, LectureProgress, Review, now, resp, UserProfile>>

\* enroll: the message and the redirect after the try block
EnrollRespond(t) ==
    /\ call[t].view = "enroll" /\ call[t].pc \in {"created", "IntegrityError"}
    /\ IF call[t].pc = "created"
       THEN Return(t, Response(call[t].user, "enroll", "redirect", "lecture",
                               "Successfully enrolled! Start learning now.", NoContext))
       ELSE Return(t, Response(call[t].user, "enroll", "redirect", "course-detail",
                               "You are already enrolled in this course.", NoContext))
    /\ UNCHANGED <<db, now, resp, UserProfile>>

\* lecture_selected: the course by its slug, then the lecture by its slug and
\* its course
SelectedGetLecture(t) ==
    /\ call[t].view = "lecture_selected" /\ call[t].pc = "start"
    /\ IF \E course \in CoursesBySlug(call[t].course_slug) :
             LecturesBySlug(course, call[t].lecture_slug) # {}
       THEN \E course \in CoursesBySlug(call[t].course_slug) :
            \E l \in LecturesBySlug(course, call[t].lecture_slug) :
               Goto(t, [call[t] EXCEPT !.course = course, !.lecture_selected = l],
                    "enrolled")
       ELSE Return(t, NotFound(call[t].user, "lecture_selected"))
    /\ UNCHANGED <<db, now, resp, UserProfile>>

\* lecture_selected: Enroll.objects.filter(course=, user=).exists()
SelectedEnrolled(t) ==
    /\ call[t].view = "lecture_selected" /\ call[t].pc = "enrolled"
    /\ IF is_enrolled(call[t].user, call[t].course)
       THEN Goto(t, call[t], "get")
       ELSE Return(t, NotEnrolled(call[t].user, "lecture_selected"))
    /\ UNCHANGED <<db, now, resp, UserProfile>>

\* get_or_create, first query: the SELECT of the row (user, lecture)
ProgressGet(t) ==
    /\ call[t].view = "lecture_selected" /\ call[t].pc = "get"
    /\ LET found == {r \in BagToSet(LectureProgress) :
                        r.user = call[t].user /\ r.lecture = call[t].lecture_selected}
       IN  IF found # {}
           THEN \E r \in found : Goto(t, [call[t] EXCEPT !.progress = r], "completed")
           ELSE Goto(t, call[t], "create")
    /\ UNCHANGED <<db, now, resp, UserProfile>>

\* get_or_create, second query: the INSERT of the row with the defaults, that
\* the constraint unique_user_lecture_progress admits or refuses
ProgressCreate(t) ==
    /\ call[t].view = "lecture_selected" /\ call[t].pc = "create"
    /\ LET row == [user |-> call[t].user, lecture |-> call[t].lecture_selected,
                   completed |-> TRUE, completed_at |-> now, last_accessed |-> now]
       IN  IF unique_user_lecture_progress(call[t].user, call[t].lecture_selected)
           THEN /\ LectureProgress' = Insert(LectureProgress, row)
                /\ Goto(t, [call[t] EXCEPT !.progress = row], "completed")
           ELSE /\ UNCHANGED LectureProgress
                /\ Goto(t, call[t], "get_again")
    /\ UNCHANGED <<User, Course, Lecture, Enroll, Review, now, resp, UserProfile>>

\* get_or_create, after the IntegrityError of the INSERT: the SELECT again, and
\* the error raised again when the row is still not there
ProgressGetAgain(t) ==
    /\ call[t].view = "lecture_selected" /\ call[t].pc = "get_again"
    /\ LET found == {r \in BagToSet(LectureProgress) :
                        r.user = call[t].user /\ r.lecture = call[t].lecture_selected}
       IN  IF found # {}
           THEN \E r \in found : Goto(t, [call[t] EXCEPT !.progress = r], "completed")
           ELSE Return(t, Response(call[t].user, "lecture_selected", "500", "",
                                   "IntegrityError", NoContext))
    /\ UNCHANGED <<db, now, resp, UserProfile>>

\* lecture_selected: if not progress.completed, the row is completed and
\* saved: the UPDATE of the row of the same key with the fields of the copy
\* the thread holds
ProgressSave(t) ==
    /\ call[t].view = "lecture_selected" /\ call[t].pc = "completed"
    /\ IF ~ call[t].progress.completed
       THEN LET new  == [call[t].progress EXCEPT !.completed = TRUE,
                                                 !.completed_at = now,
                                                 !.last_accessed = now]
                rest == Filter(LectureProgress,
                               {r \in DOMAIN LectureProgress :
                                   ~ (r.user = new.user /\ r.lecture = new.lecture)})
            IN  /\ LectureProgress' = Insert(rest, new)
                /\ Goto(t, [call[t] EXCEPT !.progress = new], "render")
       ELSE /\ UNCHANGED LectureProgress
            /\ Goto(t, call[t], "render")
    /\ UNCHANGED <<User, Course, Lecture, Enroll, Review, now, resp, UserProfile>>

\* _get_lecture_context, first query: lecture_list = list(lectures), the
\* SELECT of the lazy queryset the view built
NavListLectures(t) ==
    /\ call[t].view = "lecture_selected" /\ call[t].pc = "render"
    /\ Goto(t, [call[t] EXCEPT !.lecture_list = LecturesOf(call[t].course)], "context")
    /\ UNCHANGED <<db, now, resp, UserProfile>>

\* _get_lecture_context, second query: the SELECT of the completed lecture
\* ids; then the context and the page
SelectedRender(t) ==
    /\ call[t].view = "lecture_selected" /\ call[t].pc = "context"
    /\ Return(t, Response(call[t].user, "lecture_selected", "render",
                          "courses/lecture_selected.html", "",
                          [course |-> call[t].course,
                           lecture_selected |-> call[t].lecture_selected,
                           enrolled |-> TRUE,
                           nav |-> _get_lecture_context(
                                      call[t].course, call[t].lecture_list,
                                      call[t].lecture_selected, call[t].user,
                                      LectureProgress)]))
    /\ UNCHANGED <<db, now, resp, UserProfile>>

NextRace ==
    \E t \in Threads :
       \/ EnrollGetCourse(t)
       \/ EnrollCreate(t)
       \/ EnrollRespond(t)
       \/ SelectedGetLecture(t)
       \/ SelectedEnrolled(t)
       \/ ProgressGet(t)
       \/ ProgressCreate(t)
       \/ ProgressGetAgain(t)
       \/ ProgressSave(t)
       \/ NavListLectures(t)
       \/ SelectedRender(t)

SpecRace == InitRace /\ [][NextRace]_vars

\* the threads whose request is enroll(user, course)
Enrolling(user, course) ==
    {t \in Threads : /\ call[t].view = "enroll"
                     /\ call[t].user = user
                     /\ call[t].course_id = course}

\* the threads whose request is lecture_selected for lec, asked by user
Opening(user, lec) ==
    {t \in Threads : /\ call[t].view = "lecture_selected"
                     /\ call[t].user = user
                     /\ \E c \in DOMAIN Course :
                           /\ Course[c].course_slug = call[t].course_slug
                           /\ lec \in LecturesBySlug(c, call[t].lecture_slug)}

Done(t) == call[t].pc = "done"

(***************************************************************************)
(* C16: when two (or more) enroll requests for the same (user, course),    *)
(* not enrolled before, are served at the same time, then in every         *)
(* interleaving of their queries there is never more than one Enroll row   *)
(* for the pair, and once all of them have answered exactly one row        *)
(* exists, exactly one request got the success redirect and every other    *)
(* one the redirect with "You are already enrolled in this course.".       *)
(***************************************************************************)
C16_ConcurrentEnroll ==
    \A user \in TwoUsersOneCourse.User, course \in DOMAIN TwoUsersOneCourse.Course :
       (EnrollmentsOf(Enroll, user, course) = 0)
       => [](/\ EnrollmentsOf(Enroll, user, course) <= 1
             /\ (/\ Cardinality(Enrolling(user, course)) >= 2
                 /\ \A t \in Enrolling(user, course) : Done(t))
                => /\ EnrollmentsOf(Enroll, user, course) = 1
                   /\ Cardinality({t \in Enrolling(user, course) :
                         ret[t].message = "Successfully enrolled! Start learning now."})
                      = 1
                   /\ \A t \in Enrolling(user, course) :
                         /\ ret[t].status = "redirect"
                         /\ \/ /\ ret[t].message = "Successfully enrolled! Start learning now."
                               /\ ret[t].to = "lecture"
                            \/ /\ ret[t].message = "You are already enrolled in this course."
                               /\ ret[t].to = "course-detail")

\* two requests of user 2 for course 1 have both answered: the first lost the
\* race and the second won it
C16_FirstThreadLost ==
    /\ Enrolling(2, 1) = {1, 2}
    /\ Done(1) /\ Done(2)
    /\ ret[1].message = "You are already enrolled in this course."
    /\ ret[2].message = "Successfully enrolled! Start learning now."
    /\ EnrollmentsOf(Enroll, 2, 1) = 1

(***************************************************************************)
(* C17: while two or more accesses of the same lecture by the same user    *)
(* are served at the same time, in every interleaving of their queries     *)
(* there is at most one LectureProgress row for each (user, lecture), no   *)
(* access ends in an error, and once an access has rendered its page the   *)
(* row of its (user, lecture) exists and is completed.                     *)
(***************************************************************************)
C17_ConcurrentAccess ==
    /\ \A user \in User, lec \in DOMAIN Lecture :
          BagCardinality(ProgressOf(LectureProgress, user, lec)) <= 1
    /\ \A t \in Threads :
          /\ ret[t].status # "500"
          /\ (call[t].view = "lecture_selected" /\ Done(t) /\ ret[t].status = "render")
             => /\ BagCardinality(ProgressOf(LectureProgress, call[t].user,
                                             call[t].lecture_selected)) = 1
                /\ \A r \in BagToSet(LectureProgress) :
                      (r.user = call[t].user /\ r.lecture = call[t].lecture_selected)
                      => r.completed

\* both threads open lecture 1 for user 1: the second created the row and
\* rendered its page, the first found no row, lost the INSERT and is about to
\* fetch the row the second created
C17_LostTheInsert ==
    /\ Opening(1, 1) = {1, 2}
    /\ call[1].pc = "get_again"
    /\ Done(2) /\ ret[2].status = "render"
    /\ BagCardinality(ProgressOf(LectureProgress, 1, 1)) = 1

(***************************************************************************)
(* The admin site beside the views that write: the delete of a Course, a  *)
(* Lecture or a User row.  Every foreign key is on_delete=CASCADE, so      *)
(* the delete collects the rows that refer to the deleted one, and the     *)
(* rows that refer to those.                                               *)
(***************************************************************************)
\* a delete of a course whose cascade stops at the lectures: the
\* LectureProgress rows of the lectures stay
delete_course_shallow(course) ==
    /\ course \in DOMAIN Course
    /\ Course' = [c \in DOMAIN Course \ {course} |-> Course[c]]
    /\ Lecture' = [l \in {x \in DOMAIN Lecture : Lecture[x].course # course}
                     |-> Lecture[l]]
    /\ Enroll' = Filter(Enroll, {r \in DOMAIN Enroll : r.course # course})
    /\ Review' = Filter(Review, {r \in DOMAIN Review : r.course # course})
    /\ UNCHANGED <<User, LectureProgress, now, resp, call, ret, UserProfile>>

\* Course.delete(): the course, its lectures, enrollments and reviews, and
\* the progress rows of its lectures
delete_course(course) ==
    /\ course \in DOMAIN Course
    /\ LET lectures == {l \in DOMAIN Lecture : Lecture[l].course = course}
       IN  /\ Course' = [c \in DOMAIN Course \ {course} |-> Course[c]]
           /\ Lecture' = [l \in DOMAIN Lecture \ lectures |-> Lecture[l]]
           /\ Enroll' = Filter(Enroll, {r \in DOMAIN Enroll : r.course # course})
           /\ Review' = Filter(Review, {r \in DOMAIN Review : r.course # course})
           /\ LectureProgress' =
                 Filter(LectureProgress,
                        {r \in DOMAIN LectureProgress : r.lecture \notin lectures})
    /\ UNCHANGED <<User, now, resp, call, ret, UserProfile>>

\* Lecture.delete(): the lecture and its progress rows
delete_lecture(lec) ==
    /\ lec \in DOMAIN Lecture
    /\ Lecture' = [l \in DOMAIN Lecture \ {lec} |-> Lecture[l]]
    /\ LectureProgress' =
          Filter(LectureProgress, {r \in DOMAIN LectureProgress : r.lecture # lec})
    /\ UNCHANGED <<User, Course, Enroll, Review, now, resp, call, ret, UserProfile>>

\* the constraint uniq_lecture_slug_per_course admits a new row (course, slug)
uniq_lecture_slug_per_course(course, lecture_slug) ==
    ~ \E l \in DOMAIN Lecture :
         Lecture[l].course = course /\ Lecture[l].lecture_slug = lecture_slug

\* the add form of the Lecture admin: a new lecture of a course, refused when
\* the course has a lecture of that slug; the new row gets the id after the
\* largest one
add_lecture(course, lecture_slug) ==
    /\ course \in DOMAIN Course
    /\ uniq_lecture_slug_per_course(course, lecture_slug)
    /\ LET id == 1 + CHOOSE m \in DOMAIN Lecture \cup {0} :
                         \A l \in DOMAIN Lecture : l <= m
       IN  /\ id <= MaxLectures
           /\ Lecture' = (id :> LectureRow(course, lecture_slug)) @@ Lecture
    /\ UNCHANGED <<User, Course, Enroll, LectureProgress, Review, now, resp, call, ret,
                   UserProfile>>

\* User.delete(): the user and the user's enrollments, progress, reviews and
\* profile
delete_user(user) ==
    /\ user \in User
    /\ User' = User \ {user}
    /\ Enroll' = Filter(Enroll, {r \in DOMAIN Enroll : r.user # user})
    /\ LectureProgress' =
          Filter(LectureProgress, {r \in DOMAIN LectureProgress : r.user # user})
    /\ Review' = Filter(Review, {r \in DOMAIN Review : r.user # user})
    /\ UserProfile' = Filter(UserProfile, {r \in DOMAIN UserProfile : r.user # user})
    /\ UNCHANGED <<Course, Lecture, now, resp, call, ret>>

\* the views that write, the add form of the lectures and the deletes
NextAdmin ==
    \/ \E user \in User, course_id \in CourseIds : enroll(user, course_id)
    \/ \E user \in User, c \in CourseIds, l \in 1..MaxLectures :
          lecture_selected(user, CourseSlugs[c], LectureSlugs[l])
    \/ \E user \in User, c \in CourseIds :
          submit_review(user, "POST", CourseSlugs[c],
                        [rating |-> <<"2">>, comment |-> <<" ", "o", "k", " ">>])
    \/ \E course \in CourseIds, l \in 1..2 : add_lecture(course, LectureSlugs[l])
    \/ \E course \in CourseIds : delete_course(course)
    \/ \E lec \in 1..MaxLectures : delete_lecture(lec)
    \/ \E user \in User : delete_user(user)

\* the databases of two of the catalogs, before the first request
InitAdmin ==
    /\ Init
    /\ User = TwoUsersOneCourse.User \/ Lecture = OneUserTwoCourses.Lecture

SpecAdmin == InitAdmin /\ [][NextAdmin]_vars

(***************************************************************************)
(* C18: whatever the views have stored and whatever the admin site has     *)
(* deleted, no row refers to a row that is not there: every Lecture has    *)
(* its Course, every Enroll and Review row its User and its Course, every  *)
(* LectureProgress row its User and its Lecture.                           *)
(***************************************************************************)
C18_NoOrphanRows ==
    /\ \A l \in DOMAIN Lecture : Lecture[l].course \in DOMAIN Course
    /\ \A r \in BagToSet(Enroll) : r.user \in User /\ r.course \in DOMAIN Course
    /\ \A r \in BagToSet(Review) : r.user \in User /\ r.course \in DOMAIN Course
    /\ \A r \in BagToSet(LectureProgress) :
          r.user \in User /\ r.lecture \in DOMAIN Lecture

\* the last page served was a lecture of course 1, which recorded progress
\* in it; course 1 has since been deleted and only the rows of course 2 and
\* of its lecture are left
C18_CourseDeletedAfterProgress ==
    /\ resp.view = "lecture_selected" /\ resp.status = "render"
    /\ resp.context.course = 1
    /\ DOMAIN Course = {2}
    /\ DOMAIN Lecture = {3}
    /\ BagToSet(Enroll) = {[user |-> 1, course |-> 2]}
    /\ \E r \in BagToSet(LectureProgress) : r.lecture = 3

(***************************************************************************)
(* C19: no two lectures of one course have the same slug, while lectures   *)
(* of different courses may; and a lecture_selected request for            *)
(* (course_slug, lecture_slug) that renders a page renders the lecture     *)
(* with that slug of the course with that course_slug, for a user enrolled *)
(* in that course, and touches no LectureProgress row but the one of that  *)
(* user and that lecture.                                                  *)
(***************************************************************************)
C19_SlugScopedByCourse ==
    [][/\ \A l1 \in DOMAIN Lecture', l2 \in DOMAIN Lecture' :
             (l1 # l2 /\ Lecture'[l1].course = Lecture'[l2].course)
             => Lecture'[l1].lecture_slug # Lecture'[l2].lecture_slug
       /\ \A user \in User, c \in CourseIds, s \in 1..MaxLectures :
             (/\ resp'.view = "lecture_selected"
              /\ resp'.user = user
              /\ resp'.status = "render"
              /\ lecture_selected(user, CourseSlugs[c], LectureSlugs[s]))
             => LET l == resp'.context.lecture_selected
                IN  /\ l \in DOMAIN Lecture
                    /\ Lecture[l].lecture_slug = LectureSlugs[s]
                    /\ Lecture[l].course = resp'.context.course
                    /\ Course[Lecture[l].course].course_slug = CourseSlugs[c]
                    /\ is_enrolled(user, Lecture[l].course)
                    /\ \A r \in BagToSet(LectureProgress) \cup BagToSet(LectureProgress') :
                          \/ r.user = user /\ r.lecture = l
                          \/ CopiesIn(r, LectureProgress') = CopiesIn(r, LectureProgress)
                    /\ \E r \in BagToSet(LectureProgress') :
                          r.user = user /\ r.lecture = l
      ]_vars

\* both courses have a lecture "intro"; the user is enrolled in course 2
\* alone, has opened its "intro", and the only progress stored is for that
\* lecture of course 2
C19_IntroOfSecondCourse ==
    /\ \E l1 \in DOMAIN Lecture, l2 \in DOMAIN Lecture :
          /\ Lecture[l1].course = 1 /\ Lecture[l2].course = 2
          /\ Lecture[l1].lecture_slug = "intro" /\ Lecture[l2].lecture_slug = "intro"
          /\ resp.view = "lecture_selected" /\ resp.status = "render"
          /\ resp.context.lecture_selected = l2
          /\ \A r \in BagToSet(LectureProgress) : r.lecture = l2
    /\ LectureProgress # EmptyBag
    /\ \A r \in BagToSet(Enroll) : r.course = 2

(***************************************************************************)
(* C20: for a request of nobody (no user, or the anonymous user), whatever *)
(* the Enroll and LectureProgress tables hold: no course has an Enroll row *)
(* of the requester, and _get_lecture_context gives completed_count 0, no  *)
(* completed lecture id, progress_percent 0 and just_completed_course      *)
(* false, with the previous_lecture, next_lecture, current_position and    *)
(* total_lectures it gives to every user.                                  *)
(***************************************************************************)
C20_NobodyHasNoProgress ==
    /\ \A course \in DOMAIN Course : ~ is_enrolled(AnonymousUser, course)
    /\ (call.user \in {None, AnonymousUser} /\ ret # << >>)
       => /\ ret[1].completed_count = 0
          /\ ret[1].completed_lecture_ids = {}
          /\ ret[1].progress_percent = 0
          /\ ~ ret[1].just_completed_course
          /\ \A user \in User :
                LET nav == _get_lecture_context(call.course, LecturesOf(call.course),
                                                call.current_lecture, user,
                                                LectureProgress)
                IN  /\ ret[1].previous_lecture = nav.previous_lecture
                    /\ ret[1].next_lecture = nav.next_lecture
                    /\ ret[1].current_position = nav.current_position
                    /\ ret[1].total_lectures = nav.total_lectures

\* nobody is looking at the first lecture of a course that user 1 is enrolled
\* in and has completed every lecture of: no progress is shown, and the next
\* lecture is
C20_NobodySeesCompletedCourse ==
    /\ call.user = AnonymousUser
    /\ ret # << >>
    /\ is_enrolled(1, call.course)
    /\ LecturesOf(call.course) # << >>
    /\ \A i \in 1..Len(LecturesOf(call.course)) :
          \E r \in BagToSet(LectureProgress) :
             r.user = 1 /\ r.lecture = LecturesOf(call.course)[i] /\ r.completed
    /\ ret[1].progress_percent = 0
    /\ ret[1].current_position = 1
    /\ ret[1].next_lecture # None

EmptyCoursePage(r) ==
    /\ r.view = "lecture"
    /\ r.status = "render"
    /\ r.context.lecture_selected = None

(***************************************************************************)
(* C22: the page the lecture view renders for a course with zero          *)
(* lectures carries a navigation state with current_position 1,            *)
(* progress_percent 0, total_lectures 0 and no previous and no next        *)
(* lecture.                                                                *)
(***************************************************************************)
C22_EmptyCourseHasNavigation ==
    EmptyCoursePage(resp) =>
       LET nav == resp.context.nav
       IN  /\ {"current_position", "progress_percent", "total_lectures",
               "previous_lecture", "next_lecture"} \subseteq DOMAIN nav
           /\ nav.current_position = 1
           /\ nav.progress_percent = 0
           /\ nav.total_lectures = 0
           /\ nav.previous_lecture = None
           /\ nav.next_lecture = None

(***************************************************************************)
(* C23: no request served by the views (lecture access, review, course     *)
(* detail, the listing, a repeated enroll) changes or removes an Enroll    *)
(* row: every row of the table is still in it after the step, so a user    *)
(* enrolled in a course stays enrolled.                                    *)
(***************************************************************************)
C23_EnrollmentKept ==
    [][/\ \A r \in BagToSet(Enroll) : CopiesIn(r, Enroll') >= CopiesIn(r, Enroll)
       /\ \A user \in User, course \in DOMAIN Course :
             is_enrolled(user, course)
             => \E r \in BagToSet(Enroll') : r.user = user /\ r.course = course
      ]_vars

\* an enrolled user who has opened a lecture and reviewed the course has
\* asked to enroll again, and is still enrolled
C23_StillEnrolledAfterRepeat ==
    /\ resp.view = "enroll"
    /\ resp.message = "You are already enrolled in this course."
    /\ \E course \in DOMAIN Course :
          /\ is_enrolled(resp.user, course)
          /\ \E r \in BagToSet(Review) : r.user = resp.user /\ r.course = course
          /\ \E r \in BagToSet(LectureProgress) :
                r.user = resp.user /\ Lecture[r.lecture].course = course
    /\ BagCardinality(Enroll) = 1

(***************************************************************************)
(* The users app: the profile page, the edit form and the profile page of  *)
(* another user.  A UserProfile row is [user, bio, phone_number,           *)
(* preferred_language, email_notifications, created_at].                   *)
(***************************************************************************)
\* @login_required and LoginRequiredMixin without login_url: settings.LOGIN_URL
ProfileLoginRedirect(view) ==
    Response(AnonymousUser, view, "redirect", "/accounts/login/", "", NoContext)

\* the UserProfile rows of a table that belong to user
ProfilesOf(table, user) == {r \in BagToSet(table) : r.user = user}

\* a profile page that creates a row at every visit
create_profile(user) ==
    Insert(UserProfile,
           [user |-> user, bio |-> "", phone_number |-> "", preferred_language |-> "en",
            email_notifications |-> TRUE, created_at |-> now])

\* the table after UserProfile.objects.get_or_create(user=user)
get_or_create_profile(user) ==
    IF ProfilesOf(UserProfile, user) # {}
    THEN UserProfile
    ELSE Insert(UserProfile,
                [user |-> user, bio |-> "", phone_number |-> "",
                 preferred_language |-> "en", email_notifications |-> TRUE,
                 created_at |-> now])

profile_view(user) ==
    /\ IF user = AnonymousUser
       THEN /\ resp' = ProfileLoginRedirect("profile_view")
            /\ UNCHANGED UserProfile
       ELSE LET table == get_or_create_profile(user)
            IN  /\ UserProfile' = table
                /\ resp' = Response(user, "profile_view", "render", "users/profile.html",
                                    "", [profile |-> ProfilesOf(table, user)])
    /\ UNCHANGED <<db, now, call, ret>>

\* request.POST.get(key, default)
PostGet(POST, key, default) == IF key \in DOMAIN POST THEN POST[key] ELSE default

\* the forms the edit page is posted with
ProfileForms ==
    {[bio |-> "hi", phone_number |-> "1", preferred_language |-> "ta",
      email_notifications |-> "on"],
     [bio |-> "hi"]}

profile_edit_view(user, method, POST) ==
    /\ IF user = AnonymousUser
       THEN /\ resp' = ProfileLoginRedirect("profile_edit_view")
            /\ UNCHANGED UserProfile
       ELSE LET table == get_or_create_profile(user)
            IN  IF method = "POST"
                THEN \E profile \in ProfilesOf(table, user) :
                        LET saved == [profile EXCEPT
                                        !.bio = PostGet(POST, "bio", ""),
                                        !.phone_number = PostGet(POST, "phone_number", ""),
                                        !.preferred_language =
                                            PostGet(POST, "preferred_language", "en"),
                                        !.email_notifications =
                                            PostGet(POST, "email_notifications", "") = "on"]
                        IN  /\ UserProfile' =
                                  Insert(Filter(table, {r \in DOMAIN table : r # profile}),
                                         saved)
                            /\ resp' = Response(user, "profile_edit_view", "redirect",
                                                "users:profile",
                                                "Profile updated successfully!", NoContext)
                ELSE /\ UserProfile' = table
                     /\ resp' = Response(user, "profile_edit_view", "render",
                                         "users/profile_edit.html", "",
                                         [profile |-> ProfilesOf(table, user)])
    /\ UNCHANGED <<db, now, call, ret>>

\* ProfileDetailView: the page of the user with primary key pk
ProfileDetailView(user, pk) ==
    /\ IF user = AnonymousUser
       THEN /\ resp' = ProfileLoginRedirect("ProfileDetailView")
            /\ UNCHANGED UserProfile
       ELSE IF pk \notin User
       THEN /\ resp' = NotFound(user, "ProfileDetailView")
            /\ UNCHANGED UserProfile
       ELSE LET table == get_or_create_profile(pk)
            IN  /\ UserProfile' = table
                /\ resp' = Response(user, "ProfileDetailView", "render",
                                    "users/profile_detail.html", "",
                                    [profile |-> ProfilesOf(table, pk)])
    /\ UNCHANGED <<db, now, call, ret>>

\* two registered users and no profile yet
InitProfile ==
    /\ User = {1, 2}
    /\ Course = << >> /\ Lecture = << >>
    /\ Enroll = EmptyBag /\ LectureProgress = EmptyBag /\ Review = EmptyBag
    /\ UserProfile = EmptyBag
    /\ now = 1
    /\ resp = NoResponse
    /\ call = NoCall
    /\ ret = << >>

NextProfile ==
    \/ \E user \in Requesters : profile_view(user)
    \/ \E user \in Requesters : profile_edit_view(user, "GET", << >>)
    \/ \E user \in Requesters, POST \in ProfileForms :
          profile_edit_view(user, "POST", POST)
    \/ \E user \in Requesters, pk \in 1..3 : ProfileDetailView(user, pk)
    \/ Tick

SpecProfile == InitProfile /\ [][NextProfile]_vars

(***************************************************************************)
(* C24: a request for the profile page without a logged-in user is         *)
(* redirected to the login page and creates no UserProfile row; a request  *)
(* of a logged-in user renders the page, and creates the UserProfile row   *)
(* of that user if and only if the user has none; whatever profile pages   *)
(* have been served, no user has more than one UserProfile row.            *)
(***************************************************************************)
C24_ProfileForAuthenticated ==
    [][/\ \A user \in User :
             Count(UserProfile', {r \in DOMAIN UserProfile' : r.user = user}) <= 1
       /\ \A user \in Requesters :
             (resp'.view = "profile_view" /\ resp'.user = user /\ profile_view(user))
             => IF user = AnonymousUser
                THEN /\ resp'.status = "redirect"
                     /\ resp'.to = "/accounts/login/"
                     /\ UNCHANGED UserProfile
                ELSE /\ resp'.status = "render"
                     /\ IF ProfilesOf(UserProfile, user) # {}
                        THEN UNCHANGED UserProfile
                        ELSE \E r \in DOMAIN UserProfile' :
                                /\ r.user = user
                                /\ UserProfile' = Insert(UserProfile, r)
      ]_vars

\* user 1 looks at the profile page again, later than the visit that created
\* the row: the row is the one of the first visit, and user 2 has none
C24_SecondVisitKeepsRow ==
    /\ resp.view = "profile_view" /\ resp.user = 1 /\ resp.status = "render"
    /\ resp.at = 2
    /\ BagCardinality(UserProfile) = 1
    /\ \E r \in BagToSet(UserProfile) : r.user = 1 /\ r.created_at = 1 /\ r.bio = "hi"

(***************************************************************************)
(* C25: every entry of the enrolled-courses listing of a user has total =  *)
(* the number of lectures of the course, completed = the number of         *)
(* lectures of the course the user has a completed LectureProgress row     *)
(* for, and progress = the progress_percent _get_lecture_context gives     *)
(* that user for that course; the listing holds one entry for each course  *)
(* the user is enrolled in.                                                *)
(***************************************************************************)
C25_ListingMatchesNavigation ==
    (resp.view = "enrolled_courses" /\ resp.status = "render")
    => /\ {e.course : e \in resp.context.courses}
          = {c \in DOMAIN Course : is_enrolled(resp.user, c)}
       /\ \A e \in resp.context.courses :
             LET nav == _get_lecture_context(e.course, LecturesOf(e.course), None,
                                             resp.user, LectureProgress)
             IN  /\ e.total = Len(LecturesOf(e.course))
                 /\ e.completed = Cardinality(CompletedLectureIds(resp.user, e.course,
                                                                  LectureProgress))
                 /\ e.progress = nav.progress_percent

(***************************************************************************)
(* C26: every LectureProgress row the views have stored is completed and   *)
(* carries a completed_at stamp, from the step that creates it on; and a   *)
(* row that exists keeps the completed_at it has, whatever is requested    *)
(* next.  So the views never find a row that is not completed.             *)
(***************************************************************************)
C26_AlwaysCompletedNeverRestamped ==
    [][/\ \A r \in BagToSet(LectureProgress') :
             /\ r.completed
             /\ r.completed_at \in 1..now
       /\ \A old \in BagToSet(LectureProgress) :
             \E new \in BagToSet(LectureProgress') :
                /\ new.user = old.user
                /\ new.lecture = old.lecture
                /\ new.completed_at = old.completed_at
      ]_vars

\* user 1 opened the first lecture at time 1 and the second at time 2, and
\* has just come back to the first through the lecture view: its row still
\* carries the stamp 1
C26_FirstStampKept ==
    /\ resp.view = "lecture" /\ resp.status = "render" /\ resp.at = 2
    /\ resp.user = 1
    /\ resp.context.lecture_selected = 1
    /\ \E r \in BagToSet(LectureProgress) :
          r.user = 1 /\ r.lecture = 1 /\ r.completed /\ r.completed_at = 1
    /\ \E r \in BagToSet(LectureProgress) :
          r.user = 1 /\ r.lecture = 2 /\ r.completed /\ r.completed_at = 2

(***************************************************************************)
(* Lecture pages served at the same time while the admin site adds a       *)
(* lecture to the course: user 1, enrolled in the course, asks for its     *)
(* lectures "intro" and "setup"; "setup" exists once the admin has added   *)
(* it.                                                                     *)
(***************************************************************************)
InitNavRace ==
    /\ User = TwoUsersOneCourse.User
    /\ Course = TwoUsersOneCourse.Course
    /\ Lecture = TwoUsersOneCourse.Lecture
    /\ Enroll = SetToBag({[user |-> 1, course |-> 1]})
    /\ LectureProgress \in ProgressTables({1}, {1})
    /\ Review = EmptyBag
    /\ UserProfile = EmptyBag
    /\ now = 1
    /\ resp = NoResponse
    /\ call \in [Threads -> {Request("lecture_selected", 1, None, CourseSlugs[1],
                                     LectureSlugs[l]) : l \in 1..2}]
    /\ ret = [t \in Threads |-> NoResponse]

NextNavRace ==
    \/ \E t \in Threads :
          \/ SelectedGetLecture(t)
          \/ SelectedEnrolled(t)
          \/ ProgressGet(t)
          \/ ProgressCreate(t)
          \/ ProgressGetAgain(t)
          \/ ProgressSave(t)
          \/ NavListLectures(t)
          \/ SelectedRender(t)
    \/ add_lecture(1, LectureSlugs[2])

SpecNavRace == InitNavRace /\ [][NextNavRace]_vars

(***************************************************************************)
(* C27: every navigation state a lecture page carries has                  *)
(* 0 <= completed_count <= total_lectures, 0 <= progress_percent <= 100,   *)
(* completed_lecture_ids among the ids of the lecture list it was built    *)
(* from, and 1 <= current_position <= max(1, total_lectures), also when a  *)
(* lecture is added and opened by the same user between the read of the    *)
(* lecture list and the read of the completed ids.                         *)
(***************************************************************************)
C27_NavigationWithinBounds ==
    \A t \in Threads :
       (Done(t) /\ ret[t].status = "render")
       => LET nav == ret[t].context.nav
          IN  /\ nav.total_lectures = Len(call[t].lecture_list)
              /\ 0 <= nav.completed_count
              /\ nav.completed_count <= nav.total_lectures
              /\ 0 <= nav.progress_percent
              /\ nav.progress_percent <= 100
              /\ nav.completed_lecture_ids
                    \subseteq {call[t].lecture_list[i] : i \in 1..Len(call[t].lecture_list)}
              /\ 1 <= nav.current_position
              /\ nav.current_position
                    <= IF nav.total_lectures > 1 THEN nav.total_lectures ELSE 1


(***************************************************************************)
(* C28: the navigation state of a lecture page always contains the lecture *)
(* just viewed among completed_lecture_ids, so completed_count >= 1; the   *)
(* lecture view shows the lecture of the course with the lowest id; and    *)
(* the view leaves the viewed lecture completed for the viewer and changes *)
(* no LectureProgress row of any other lecture or any other user.          *)
(***************************************************************************)
C28_ReadYourOwnWrite ==
    [][\A user \in User, lec \in DOMAIN Lecture :
          Accesses(user, lec) =>
             /\ lec \in resp'.context.nav.completed_lecture_ids
             /\ resp'.context.nav.completed_count >= 1
             /\ resp'.view = "lecture" => lec = Head(LecturesOf(Lecture[lec].course))
             /\ BagCardinality(ProgressOf(LectureProgress', user, lec)) >= 1
             /\ \A q \in BagToSet(ProgressOf(LectureProgress', user, lec)) : q.completed
             /\ \A u \in User, l \in DOMAIN Lecture :
                   (u # user \/ l # lec) =>
                      ProgressOf(LectureProgress', u, l) = ProgressOf(LectureProgress, u, l)
      ]_vars

\* a lecture that is not the first of its course was the first one the user opened:
\* its page counts it, and it alone, as completed
C28_OnlyTheViewedLecture ==
    /\ LecturePage(resp)
    /\ resp.view = "lecture_selected"
    /\ resp.context.lecture_selected # Head(LecturesOf(resp.context.course))
    /\ resp.context.nav.completed_lecture_ids = {resp.context.lecture_selected}
    /\ resp.context.nav.completed_count = 1


\* the lectures of course for which table holds a completed row of user
CompletedBy(table, user, course) ==
    {l \in DOMAIN Lecture :
        /\ Lecture[l].course = course
        /\ \E r \in BagToSet(ProgressOf(table, user, l)) : r.completed}

SlugMaxLength == 50

DigitChar == <<"0", "1", "2", "3", "4", "5", "6", "7", "8", "9">>

\* str(suffix): the decimal digits of a positive integer
RECURSIVE Digits(_)
Digits(n) ==
    IF n < 10 THEN <<DigitChar[n + 1]>>
    ELSE Digits(n \div 10) \o <<DigitChar[(n % 10) + 1]>>

\* f"{base_slug}-{suffix}"
FormatSlug(base_slug, suffix) == base_slug \o <<"-">> \o Digits(suffix)

\* suffix = 2; while True: ... if new_slug not in existing_slugs: break; suffix += 1
RECURSIVE NewSlug(_, _, _)
NewSlug(base_slug, suffix, existing_slugs) ==
    IF FormatSlug(base_slug, suffix) \notin existing_slugs
    THEN FormatSlug(base_slug, suffix)
    ELSE NewSlug(base_slug, suffix + 1, existing_slugs)

\* Lecture.objects.values("course_id", "lecture_slug").annotate(cnt=Count("id"))
\*     .filter(cnt__gt=1)
Dupes(table) ==
    {<<table[l].course, table[l].lecture_slug>> : l \in
        {x \in DOMAIN table : \E y \in DOMAIN table :
            y # x /\ table[y].course = table[x].course
                  /\ table[y].lecture_slug = table[x].lecture_slug}}

\* the orders in which the database may hand out the rows of a query that has
\* no order_by
Orders(rows) ==
    {o \in [1..Cardinality(rows) -> rows] : \A r \in rows : \E i \in DOMAIN o : o[i] = r}

\* lecture.save(update_fields=["lecture_slug"]) on a column of SlugMaxLength
\* characters: a longer value is refused by a strict sql_mode and cut by a
\* permissive one
SaveSlug(table, lec, new_slug, strict) ==
    IF Len(new_slug) <= SlugMaxLength
    THEN [table |-> [table EXCEPT ![lec].lecture_slug = new_slug], error |-> FALSE]
    ELSE IF strict
         THEN [table |-> table, error |-> TRUE]
         ELSE [table |-> [table EXCEPT ![lec].lecture_slug =
                                          SubSeq(new_slug, 1, SlugMaxLength)],
               error |-> FALSE]

\* for index, lecture in enumerate(lectures): the lectures after the first
RECURSIVE FixLectures(_, _, _, _, _, _)
FixLectures(table, lectures, base_slug, existing_slugs, dry_run, strict) ==
    IF lectures = << >> THEN [table |-> table, error |-> FALSE]
    ELSE LET new_slug == NewSlug(base_slug, 2, existing_slugs)
             saved    == IF dry_run THEN [table |-> table, error |-> FALSE]
                         ELSE SaveSlug(table, Head(lectures), new_slug, strict)
         IN  IF saved.error THEN saved
             ELSE FixLectures(saved.table, Tail(lectures), base_slug,
                              existing_slugs \cup {new_slug}, dry_run, strict)

\* for group in dupes: the body of the loop for the groups from the first on
RECURSIVE FixGroups(_, _, _, _)
FixGroups(table, groups, dry_run, strict) ==
    IF groups = << >> THEN [table |-> table, error |-> FALSE]
    ELSE LET course_id      == Head(groups)[1]
             base_slug      == Head(groups)[2]
             lectures       == OrderById({l \in DOMAIN table :
                                             /\ table[l].course = course_id
                                             /\ table[l].lecture_slug = base_slug})
             existing_slugs == {table[l].lecture_slug :
                                   l \in {x \in DOMAIN table : table[x].course = course_id}}
             fixed          == IF Len(lectures) < 2
                               THEN [table |-> table, error |-> FALSE]
                               ELSE FixLectures(table, Tail(lectures), base_slug,
                                                existing_slugs, dry_run, strict)
         IN  IF fixed.error THEN fixed
             ELSE FixGroups(fixed.table, Tail(groups), dry_run, strict)

\* Command.handle without --course-id and without --slug; an error raised inside
\* transaction.atomic() undoes every save of the run
handle(dry_run, strict) ==
    /\ call = NoCall
    /\ call' = [kind |-> "fix_duplicate_lecture_slugs", dry_run |-> dry_run,
                Lecture |-> Lecture]
    /\ UNCHANGED <<User, Course, Enroll, LectureProgress, Review, UserProfile, now, resp>>
    /\ IF Dupes(Lecture) = {}
       THEN /\ ret' = "No duplicate lecture slugs found."
            /\ UNCHANGED Lecture
       ELSE \E groups \in Orders(Dupes(Lecture)) :
               LET fixed == FixGroups(Lecture, groups, dry_run, strict)
               IN  IF fixed.error
                   THEN /\ ret' = "DataError"
                        /\ UNCHANGED Lecture
                   ELSE /\ ret' = IF dry_run THEN "Dry run complete. No changes saved."
                                  ELSE "done"
                        /\ Lecture' = fixed.table

\* a slug of n characters
SlugOfLength(n) == [i \in 1..n |-> "x"]

\* the slugs of the stored lectures
StoredSlugs == {<<"a">>, <<"a", "-", "2">>, SlugOfLength(SlugMaxLength - 1)}

InitFix ==
    /\ User = {}
    /\ Course = [c \in CourseIds |-> CourseRow(CourseSlugs[c], TRUE)]
    /\ Lecture \in [1..MaxLectures -> {LectureRow(c, slug) : c \in CourseIds,
                                                             slug \in StoredSlugs}]
    /\ Enroll = EmptyBag /\ LectureProgress = EmptyBag /\ Review = EmptyBag
    /\ UserProfile = EmptyBag
    /\ now = 1
    /\ resp = NoResponse
    /\ call = NoCall
    /\ ret = ""

NextFix == \E dry_run \in BOOLEAN, strict \in BOOLEAN : handle(dry_run, strict)

SpecFix == InitFix /\ [][NextFix]_vars

\* the lectures of the duplicate group of course_id and base_slug in table
GroupOf(table, course_id, base_slug) ==
    {l \in DOMAIN table : table[l].course = course_id /\ table[l].lecture_slug = base_slug}

(***************************************************************************)
(* C30: after fix_duplicate_lecture_slugs has run without --dry-run, no    *)
(* two lectures of a course share a slug; in each duplicate group the      *)
(* lecture with the lowest id has kept its slug and every other lecture    *)
(* has the base slug with a numeric suffix, 2 or more, such that every     *)
(* smaller suffix from 2 on is in use in the course; the lectures outside  *)
(* the duplicate groups are unchanged.  After a run with --dry-run the     *)
(* Lecture table is what it was.                                           *)
(***************************************************************************)
C30_DuplicatesFixed ==
    call # NoCall =>
       IF call.dry_run THEN Lecture = call.Lecture
       ELSE /\ DOMAIN Lecture = DOMAIN call.Lecture
            /\ \A l, m \in DOMAIN Lecture :
                  (l # m /\ Lecture[l].course = Lecture[m].course)
                  => Lecture[l].lecture_slug # Lecture[m].lecture_slug
            /\ \A l \in DOMAIN Lecture :
                  LET before == call.Lecture[l]
                      group  == GroupOf(call.Lecture, before.course, before.lecture_slug)
                  IN  /\ Lecture[l].course = before.course
                      /\ (\A m \in group : l <= m) => Lecture[l] = before
                      /\ (\E m \in group : m < l) =>
                            \E suffix \in 2..(MaxLectures + 2) :
                               /\ Lecture[l].lecture_slug
                                     = FormatSlug(before.lecture_slug, suffix)
                               /\ \A smaller \in 2..(suffix - 1) :
                                     \E m \in DOMAIN Lecture :
                                        /\ Lecture[m].course = before.course
                                        /\ Lecture[m].lecture_slug
                                              = FormatSlug(before.lecture_slug, smaller)

====
